---- MODULE Spec2Model ----
(***************************************************************************)
(* Model of the Kid English tutoring server (english_kids_mcp):            *)
(* the session orchestrator (server.py), the utterance evaluator           *)
(* (evaluation.py), the spaced-repetition record (srs.py), the curriculum  *)
(* index (curriculum.py) and the SQLite store (db.py).                     *)
(*                                                                         *)
(* Text is a sequence of one-character strings.  Time is whole seconds, as *)
(* _now_ts() returns it; one operation reads the clock once.  Ease is kept *)
(* in hundredths and the interval in millionths of a day (fixed point,     *)
(* products rounded down), standing for the floats of srs.py.  The display *)
(* strings of an activity (prompt text, scaffold, rubric, lexicon words,   *)
(* feedback text) are derived from the item and take no part in any        *)
(* decision; they are left out of the activity records.                    *)
(***************************************************************************)
EXTENDS Integers, Sequences, FiniteSets, TLC

VARIABLES sessions,   \* table sessions: session_id -> row
          progress,   \* table progress: <<user_id, item_id>> -> row
          notes,      \* table parent_notes: session_id -> row
          now,        \* the wall clock, seconds
          ret,        \* the last call and what it returned or raised
          calls,      \* how many calls and ticks were made
          picks,      \* history: the Scheduler's selections a specification observes
          threads,    \* the request handlers in flight: their position and locals
          manager,    \* SSEConnectionManager: the queues of the open streams
          wire        \* what the HTTP server has written to its clients

vars == <<sessions, progress, notes, now, ret, calls, picks, threads, manager, wire>>

-----------------------------------------------------------------------------
(* Bounds of the model *)

MaxCalls == 5   \* behaviours are explored up to this many calls and clock ticks

-----------------------------------------------------------------------------
(* Generic helpers *)

Max(a, b) == IF a >= b THEN a ELSE b
Min(a, b) == IF a <= b THEN a ELSE b
Range(s) == {s[i] : i \in DOMAIN s}

\* floor(x * m / d) without leaving 32 bits
MulDiv(x, m, d) == (x \div d) * m + ((x % d) * m) \div d

-----------------------------------------------------------------------------
(* evaluation.py *)

LowerLetters == <<"a","b","c","d","e","f","g","h","i","j","k","l","m",
                  "n","o","p","q","r","s","t","u","v","w","x","y","z">>
UpperLetters == <<"A","B","C","D","E","F","G","H","I","J","K","L","M",
                  "N","O","P","Q","R","S","T","U","V","W","X","Y","Z">>

\* TOKEN_RE = [a-zA-Z']+
IsTokenChar(c) == c \in Range(LowerLetters) \cup Range(UpperLetters) \cup {"'"}

\* str.lower() on one character
Lower(c) ==
    IF c \in Range(UpperLetters)
    THEN LowerLetters[CHOOSE i \in DOMAIN UpperLetters : UpperLetters[i] = c]
    ELSE c

RECURSIVE TokScan(_, _, _, _)
TokScan(text, i, cur, acc) ==
    IF i > Len(text)
    THEN IF cur = <<>> THEN acc ELSE Append(acc, cur)
    ELSE IF IsTokenChar(text[i])
         THEN TokScan(text, i + 1, Append(cur, Lower(text[i])), acc)
         ELSE TokScan(text, i + 1, <<>>, IF cur = <<>> THEN acc ELSE Append(acc, cur))

\* tokenize: the maximal runs of token characters, lowercased
tokenize(text) == TokScan(text, 1, <<>>, <<>>)

\* Mutant: the two scores are returned in the other order
compare_tokens_swapped(predicted, target) ==
    IF predicted = <<>> THEN <<0, 0>>
    ELSE LET overlap == Cardinality({t \in Range(predicted) : t \in Range(target)})
             meaning == IF overlap >= Max(1, Len(target) \div 2) THEN 2
                        ELSE IF overlap > 0 THEN 1 ELSE 0
             form    == IF predicted = target THEN 2
                        ELSE IF overlap > 0 THEN 1 ELSE 0
         IN  <<form, meaning>>

\* compare_tokens: <<meaning, form>>
compare_tokens(predicted, target) ==
    IF predicted = <<>> THEN <<0, 0>>
    ELSE LET overlap == Cardinality({t \in Range(predicted) : t \in Range(target)})
             meaning == IF overlap >= Max(1, Len(target) \div 2) THEN 2
                        ELSE IF overlap > 0 THEN 1 ELSE 0
             form    == IF predicted = target THEN 2
                        ELSE IF overlap > 0 THEN 1 ELSE 0
         IN  <<meaning, form>>

Whitespace == {" "}

RECURSIVE RStrip(_)
RStrip(text) ==
    IF text # <<>> /\ text[Len(text)] \in Whitespace
    THEN RStrip(SubSeq(text, 1, Len(text) - 1))
    ELSE text

RECURSIVE LStrip(_)
LStrip(text) ==
    IF text # <<>> /\ text[1] \in Whitespace THEN LStrip(Tail(text)) ELSE text

\* str.strip()
Strip(text) == LStrip(RStrip(text))

\* str.endswith
EndsWith(text, suffix) ==
    /\ Len(text) >= Len(suffix)
    /\ SubSeq(text, Len(text) - Len(suffix) + 1, Len(text)) = suffix

Ellipsis == <<".", ".", ".">>

\* Mutant: only a trailing "..." costs the fluency point
evaluate_utterance_fluent(utterance, target_phrase) ==
    LET utter_tokens  == tokenize(utterance)
        target_tokens == tokenize(target_phrase)
        mf            == compare_tokens(utter_tokens, target_tokens)
        pronunciation == IF utter_tokens # <<>> THEN 1 ELSE 0
        fluency       == IF ~EndsWith(Strip(utterance), Ellipsis) THEN 1 ELSE 0
    IN  [meaning |-> mf[1], form |-> mf[2],
         pronunciation |-> pronunciation, fluency |-> fluency]

\* evaluate_utterance
evaluate_utterance(utterance, target_phrase) ==
    LET utter_tokens  == tokenize(utterance)
        target_tokens == tokenize(target_phrase)
        mf            == compare_tokens(utter_tokens, target_tokens)
        pronunciation == IF utter_tokens # <<>> THEN 1 ELSE 0
        fluency       == IF utterance # <<>> /\ ~EndsWith(Strip(utterance), Ellipsis)
                         THEN 1 ELSE 0
    IN  [meaning |-> mf[1], form |-> mf[2],
         pronunciation |-> pronunciation, fluency |-> fluency]

\* EvaluationResult.total
total(e) == e.meaning + e.form + e.pronunciation + e.fluency

\* Mutant: the thresholds are strict
score_to_outcome_strict(score) ==
    IF score < 2 THEN "fail" ELSE IF score < 4 THEN "partial" ELSE "pass"

score_to_outcome(score) ==
    IF score <= 2 THEN "fail" ELSE IF score <= 4 THEN "partial" ELSE "pass"

mastery_delta_for_outcome(outcome) ==
    IF outcome = "fail" THEN -1 ELSE IF outcome = "partial" THEN 0 ELSE 2

\* Mutant: a fail earns a point
xp_for_outcome_consoles(outcome) ==
    IF outcome = "pass" THEN 5 ELSE IF outcome = "partial" THEN 2 ELSE 1

\* Mutant: a pass earns what a partial earns
xp_for_outcome_flat(outcome) ==
    IF outcome = "pass" THEN 2 ELSE IF outcome = "partial" THEN 2 ELSE 0

xp_for_outcome(outcome) ==
    IF outcome = "pass" THEN 5 ELSE IF outcome = "partial" THEN 2 ELSE 0

-----------------------------------------------------------------------------
(* srs.py *)

EaseStart == 130         \* SRSItem.ease default 1.3, in hundredths
EaseStep == 5            \* + 0.05 on a pass
EaseCap == 250           \* min(..., 2.5)
IntervalUnit == 1000000  \* one day, in millionths of a day
DaySeconds == 86400      \* timedelta(days=1), in seconds
DateMaxDay == 2932896    \* datetime.max is the last second of this day after the epoch

\* interval_days: a float of days, kept as whole days and millionths of a day
Days(days, micro) == [days |-> days, micro |-> micro]
NoInterval == Days(0, 0)
OneDay == Days(1, 0)

\* datetime.fromtimestamp(t): whole days since the epoch and seconds of the day
Timestamp(t) == [days |-> t \div DaySeconds, secs |-> t % DaySeconds]

\* datetime.max, to the second
DateMax == [days |-> DateMaxDay, secs |-> DaySeconds - 1]

\* <= and max on intervals, <= on datetimes
IntervalLeq(a, b) == a.days < b.days \/ (a.days = b.days /\ a.micro <= b.micro)
IntervalMax(a, b) == IF IntervalLeq(b, a) THEN a ELSE b
DateLeq(a, b) == a.days < b.days \/ (a.days = b.days /\ a.secs <= b.secs)

\* interval * m / d for a factor m / d of 0.8 or of an ease, to the millionth
\* of a day below
Scaled(interval, m, d) ==
    LET rest  == ((interval.days % d) * m) % d
        micro == (rest * IntervalUnit + interval.micro * m) \div d
    IN  Days(MulDiv(interval.days, m, d) + micro \div IntervalUnit, micro % IntervalUnit)

\* now + timedelta(days=interval), cut to whole seconds by int(due_at.timestamp())
Later(t, interval) ==
    LET secs == t.secs + MulDiv(interval.micro, DaySeconds \div 100, IntervalUnit \div 100)
    IN  [days |-> t.days + interval.days + secs \div DaySeconds,
         secs |-> secs % DaySeconds]

\* now + timedelta(days=interval) raises OverflowError past datetime.max
OutOfRange(t, interval) == ~DateLeq(Later(Timestamp(t), interval), DateMax)

\* SRSItem(): the defaults of the dataclass
SRSItem == [ease |-> EaseStart, interval_days |-> NoInterval, due_at |-> Timestamp(0),
            streak |-> 0]

\* Mutant: a fail keeps the streak
schedule_fail_keeps_streak(item, outcome, t) ==
    IF outcome = "fail"
    THEN [ease |-> EaseStart, interval_days |-> NoInterval, due_at |-> Timestamp(t),
          streak |-> item.streak]
    ELSE IF outcome = "partial"
    THEN LET interval == IntervalMax(OneDay,
                             Scaled(IntervalMax(item.interval_days, OneDay), 8, 10))
         IN  IF OutOfRange(t, interval)
             THEN [item EXCEPT !.interval_days = interval]
             ELSE [item EXCEPT !.interval_days = interval,
                               !.due_at = Later(Timestamp(t), interval)]
    ELSE IF outcome = "pass"
    THEN LET ease     == Min(item.ease + EaseStep, EaseCap)
             base     == IntervalMax(OneDay,
                             IF item.interval_days # NoInterval THEN item.interval_days
                             ELSE OneDay)
             interval == Scaled(base, ease, 100)
         IN  IF OutOfRange(t, interval)
             THEN [item EXCEPT !.ease = ease, !.interval_days = interval]
             ELSE [ease |-> ease, interval_days |-> interval,
                   due_at |-> Later(Timestamp(t), interval), streak |-> item.streak + 1]
    ELSE item

\* Mutant: a pass adds to the ease without the cap
schedule_uncapped(item, outcome, t) ==
    IF outcome = "fail"
    THEN [ease |-> EaseStart, interval_days |-> NoInterval, due_at |-> Timestamp(t),
          streak |-> 0]
    ELSE IF outcome = "partial"
    THEN LET interval == IntervalMax(OneDay,
                             Scaled(IntervalMax(item.interval_days, OneDay), 8, 10))
         IN  IF OutOfRange(t, interval)
             THEN [item EXCEPT !.interval_days = interval]
             ELSE [item EXCEPT !.interval_days = interval,
                               !.due_at = Later(Timestamp(t), interval)]
    ELSE IF outcome = "pass"
    THEN LET ease     == item.ease + EaseStep
             base     == IntervalMax(OneDay,
                             IF item.interval_days # NoInterval THEN item.interval_days
                             ELSE OneDay)
             interval == Scaled(base, ease, 100)
         IN  IF OutOfRange(t, interval)
             THEN [item EXCEPT !.ease = ease, !.interval_days = interval]
             ELSE [ease |-> ease, interval_days |-> interval,
                   due_at |-> Later(Timestamp(t), interval), streak |-> item.streak + 1]
    ELSE item

\* Mutant: a partial takes the ease step back
schedule_partial_lowers_ease(item, outcome, t) ==
    IF outcome = "fail"
    THEN [ease |-> EaseStart, interval_days |-> NoInterval, due_at |-> Timestamp(t),
          streak |-> 0]
    ELSE IF outcome = "partial"
    THEN LET interval == IntervalMax(OneDay,
                             Scaled(IntervalMax(item.interval_days, OneDay), 8, 10))
         IN  IF OutOfRange(t, interval)
             THEN [item EXCEPT !.interval_days = interval]
             ELSE [item EXCEPT !.ease = @ - EaseStep, !.interval_days = interval,
                               !.due_at = Later(Timestamp(t), interval)]
    ELSE IF outcome = "pass"
    THEN LET ease     == Min(item.ease + EaseStep, EaseCap)
             base     == IntervalMax(OneDay,
                             IF item.interval_days # NoInterval THEN item.interval_days
                             ELSE OneDay)
             interval == Scaled(base, ease, 100)
         IN  IF OutOfRange(t, interval)
             THEN [item EXCEPT !.ease = ease, !.interval_days = interval]
             ELSE [ease |-> ease, interval_days |-> interval,
                   due_at |-> Later(Timestamp(t), interval), streak |-> item.streak + 1]
    ELSE item

\* Mutant: a partial leaves the interval as it was
schedule_partial_keeps_interval(item, outcome, t) ==
    IF outcome = "fail"
    THEN [ease |-> EaseStart, interval_days |-> NoInterval, due_at |-> Timestamp(t),
          streak |-> 0]
    ELSE IF outcome = "partial"
    THEN LET interval == IntervalMax(OneDay,
                             Scaled(IntervalMax(item.interval_days, OneDay), 10, 10))
         IN  IF OutOfRange(t, interval)
             THEN [item EXCEPT !.interval_days = interval]
             ELSE [item EXCEPT !.interval_days = interval,
                               !.due_at = Later(Timestamp(t), interval)]
    ELSE IF outcome = "pass"
    THEN LET ease     == Min(item.ease + EaseStep, EaseCap)
             base     == IntervalMax(OneDay,
                             IF item.interval_days # NoInterval THEN item.interval_days
                             ELSE OneDay)
             interval == Scaled(base, ease, 100)
         IN  IF OutOfRange(t, interval)
             THEN [item EXCEPT !.ease = ease, !.interval_days = interval]
             ELSE [ease |-> ease, interval_days |-> interval,
                   due_at |-> Later(Timestamp(t), interval), streak |-> item.streak + 1]
    ELSE item

\* Mutant: a pass leaves the streak as it was
schedule_pass_keeps_streak(item, outcome, t) ==
    IF outcome = "fail"
    THEN [ease |-> EaseStart, interval_days |-> NoInterval, due_at |-> Timestamp(t),
          streak |-> 0]
    ELSE IF outcome = "partial"
    THEN LET interval == IntervalMax(OneDay,
                             Scaled(IntervalMax(item.interval_days, OneDay), 8, 10))
         IN  IF OutOfRange(t, interval)
             THEN [item EXCEPT !.interval_days = interval]
             ELSE [item EXCEPT !.interval_days = interval,
                               !.due_at = Later(Timestamp(t), interval)]
    ELSE IF outcome = "pass"
    THEN LET ease     == Min(item.ease + EaseStep, EaseCap)
             base     == IntervalMax(OneDay,
                             IF item.interval_days # NoInterval THEN item.interval_days
                             ELSE OneDay)
             interval == Scaled(base, ease, 100)
         IN  IF OutOfRange(t, interval)
             THEN [item EXCEPT !.ease = ease, !.interval_days = interval]
             ELSE [ease |-> ease, interval_days |-> interval,
                   due_at |-> Later(Timestamp(t), interval), streak |-> item.streak]
    ELSE item

\* SRSItem.schedule: the record after the call.  The addition in lines 29 and 37
\* raises OverflowError when the due time is past datetime.max; the
\* assignments before it have been made by then
schedule(item, outcome, t) ==
    IF outcome = "fail"
    THEN [ease |-> EaseStart, interval_days |-> NoInterval, due_at |-> Timestamp(t),
          streak |-> 0]
    ELSE IF outcome = "partial"
    THEN LET interval == IntervalMax(OneDay,
                             Scaled(IntervalMax(item.interval_days, OneDay), 8, 10))
         IN  IF OutOfRange(t, interval)
             THEN [item EXCEPT !.interval_days = interval]
             ELSE [item EXCEPT !.interval_days = interval,
                               !.due_at = Later(Timestamp(t), interval)]
    ELSE IF outcome = "pass"
    THEN LET ease     == Min(item.ease + EaseStep, EaseCap)
             base     == IntervalMax(OneDay,
                             IF item.interval_days # NoInterval THEN item.interval_days
                             ELSE OneDay)
             interval == Scaled(base, ease, 100)
         IN  IF OutOfRange(t, interval)
             THEN [item EXCEPT !.ease = ease, !.interval_days = interval]
             ELSE [ease |-> ease, interval_days |-> interval,
                   due_at |-> Later(Timestamp(t), interval), streak |-> item.streak + 1]
    ELSE item

\* SRSItem.schedule raises: the interval it has just set does not fit a datetime
schedule_raises(item, outcome, t) ==
    /\ outcome \in {"partial", "pass"}
    /\ OutOfRange(t, schedule(item, outcome, t).interval_days)

-----------------------------------------------------------------------------
(* curriculum.py *)

\* The catalog read by Curriculum.from_json, in file order.  "custom" is a
\* track of the tool schema with no items.
CurriculumItems == <<
    [track |-> "greetings", item_id |-> "g1", min_age |-> 3, max_age |-> 6,
     target |-> <<"H","i">>],
    [track |-> "greetings", item_id |-> "g2", min_age |-> 3, max_age |-> 10,
     target |-> <<"G","o","o","d"," ","d","a","y">>],
    [track |-> "greetings", item_id |-> "g3", min_age |-> 5, max_age |-> 10,
     target |-> <<"B","y","e","!">>],
    [track |-> "colors-numbers", item_id |-> "n1", min_age |-> 3, max_age |-> 6,
     target |-> <<"1"," ","2">>],
    [track |-> "colors-numbers", item_id |-> "n2", min_age |-> 7, max_age |-> 10,
     target |-> <<"R","e","d">>],
    [track |-> "colors-numbers", item_id |-> "n3", min_age |-> 7, max_age |-> 10,
     target |-> <<"G","o"," ","g","o"," ","g","o"," ","g","o",".",".",".">>] >>

\* parse_age_range on the age bands of the tool schema used here
parse_age_range(band) ==
    CASE band = "3-4"  -> <<3, 4>>
      [] band = "5-6"  -> <<5, 6>>
      [] band = "7-8"  -> <<7, 8>>
      [] band = "9-10" -> <<9, 10>>

\* Mutant: the age band is not looked at
for_goal_any_age(goal, age_band) ==
    LET Fits(item) == item.track = goal
    IN  SelectSeq(CurriculumItems, Fits)

\* Curriculum.for_goal_and_age
for_goal_and_age(goal, age_band) ==
    LET lo == parse_age_range(age_band)[1]
        hi == parse_age_range(age_band)[2]
        Fits(item) == item.track = goal /\ item.min_age <= hi /\ item.max_age >= lo
    IN  SelectSeq(CurriculumItems, Fits)

-----------------------------------------------------------------------------
(* db.py: the three tables, each a function on the keys that have a row *)

\* Mutant: the attempt log is written newest first
json_dumps_reversed(state) ==
    << <<"user_id", state.user_id>>, <<"age_band", state.age_band>>,
       <<"goal", state.goal>>, <<"locale", state.locale>>,
       <<"xp", state.xp>>, <<"stickers", state.stickers>>,
       <<"pending", state.pending>>, <<"new_cursor", state.new_cursor>>,
       <<"new_since_review", state.new_since_review>>,
       <<"attempts", [i \in DOMAIN state.attempts |->
                        state.attempts[Len(state.attempts) + 1 - i]]>> >>

\* json.dumps(state): the key/value pairs of the state dictionary
json_dumps(state) ==
    << <<"user_id", state.user_id>>, <<"age_band", state.age_band>>,
       <<"goal", state.goal>>, <<"locale", state.locale>>,
       <<"xp", state.xp>>, <<"stickers", state.stickers>>,
       <<"pending", state.pending>>, <<"new_cursor", state.new_cursor>>,
       <<"new_since_review", state.new_since_review>>,
       <<"attempts", state.attempts>> >>

JsonGet(json, key) == json[CHOOSE i \in DOMAIN json : json[i][1] = key][2]

\* json.loads(row.state_json)
json_loads(json) ==
    [user_id |-> JsonGet(json, "user_id"), age_band |-> JsonGet(json, "age_band"),
     goal |-> JsonGet(json, "goal"), locale |-> JsonGet(json, "locale"),
     xp |-> JsonGet(json, "xp"), stickers |-> JsonGet(json, "stickers"),
     pending |-> JsonGet(json, "pending"), new_cursor |-> JsonGet(json, "new_cursor"),
     new_since_review |-> JsonGet(json, "new_since_review"),
     attempts |-> JsonGet(json, "attempts")]

\* Extend or overwrite a table at one key.
Put(table, key, row) ==
    [k \in DOMAIN table \cup {key} |-> IF k = key THEN row ELSE table[k]]

\* SQLiteStore.upsert_session: insert, or on conflict keep user_id and
\* created_at and overwrite the rest
upsert_session(tbl, session_id, user_id, age_band, goal, locale, state, timestamp) ==
    IF session_id \in DOMAIN tbl
    THEN [tbl EXCEPT ![session_id] =
            [@ EXCEPT !.age_band = age_band, !.goal = goal, !.locale = locale,
                      !.state_json = json_dumps(state), !.updated_at = timestamp]]
    ELSE Put(tbl, session_id,
             [session_id |-> session_id, user_id |-> user_id, age_band |-> age_band,
              goal |-> goal, locale |-> locale, state_json |-> json_dumps(state),
              created_at |-> timestamp, updated_at |-> timestamp])

\* Mutant: only the time of the update is written
update_session_state_touch(tbl, session_id, state, timestamp) ==
    IF session_id \in DOMAIN tbl
    THEN [tbl EXCEPT ![session_id] = [@ EXCEPT !.updated_at = timestamp]]
    ELSE tbl

\* Mutant: the state is not written
update_session_state_lost(tbl, session_id, state, timestamp) == tbl

\* SQLiteStore.update_session_state: UPDATE ... WHERE session_id=?
update_session_state(tbl, session_id, state, timestamp) ==
    IF session_id \in DOMAIN tbl
    THEN [tbl EXCEPT ![session_id] =
            [@ EXCEPT !.state_json = json_dumps(state), !.updated_at = timestamp]]
    ELSE tbl

\* Mutant: the WHERE clause is missing, any row answers
get_session_any(tbl, session_id) ==
    IF DOMAIN tbl # {} THEN <<tbl[CHOOSE s \in DOMAIN tbl : TRUE]>> ELSE <<>>

\* SQLiteStore.get_session: <<row>>, or <<>> for None
get_session(tbl, session_id) ==
    IF session_id \in DOMAIN tbl THEN <<tbl[session_id]>> ELSE <<>>

\* Mutant: the WHERE clause matches the rows of the other learners
get_latest_session_for_user_others(tbl, user_id) ==
    {sid \in DOMAIN tbl :
        /\ tbl[sid].user_id # user_id
        /\ \A other \in DOMAIN tbl :
              tbl[other].user_id # user_id => tbl[other].updated_at <= tbl[sid].updated_at}

\* SQLiteStore.get_latest_session_for_user: the rows ORDER BY updated_at DESC
\* LIMIT 1 may return (any of the newest)
get_latest_session_for_user(tbl, user_id) ==
    {sid \in DOMAIN tbl :
        /\ tbl[sid].user_id = user_id
        /\ \A other \in DOMAIN tbl :
              tbl[other].user_id = user_id => tbl[other].updated_at <= tbl[sid].updated_at}

\* SQLiteStore.upsert_progress
upsert_progress(tbl, user_id, item_id, item) ==
    Put(tbl, <<user_id, item_id>>,
        [ease |-> item.ease, interval_days |-> item.interval_days,
         due_at |-> item.due_at, streak |-> item.streak])

\* SQLiteStore.iter_progress: the item ids with a row for the user
iter_progress(tbl, user_id) == {k[2] : k \in {q \in DOMAIN tbl : q[1] = user_id}}

\* SQLiteStore.save_parent_note
save_parent_note(tbl, session_id, note_cn, timestamp) ==
    Put(tbl, session_id, [note_cn |-> note_cn, created_at |-> timestamp])

-----------------------------------------------------------------------------
(* server.py: helpers *)

NewSinceReviewLimit == 2   \* state["new_since_review"] >= 2
BadgeStep == 20            \* state["xp"] // 20
TimeboxSec == 12           \* Activity.timebox_sec of a planned activity
ReviewTimeboxSec == 15     \* Activity.timebox_sec of a review card

\* _load_srs: item_id -> SRSItem, for the items the user has a row for
load_srs(tbl, user_id) ==
    [item_id \in iter_progress(tbl, user_id) |->
        [ease |-> tbl[<<user_id, item_id>>].ease,
         interval_days |-> tbl[<<user_id, item_id>>].interval_days,
         due_at |-> tbl[<<user_id, item_id>>].due_at,
         streak |-> tbl[<<user_id, item_id>>].streak]]

RECURSIVE InsertByDue(_, _, _)
InsertByDue(sorted, item, srs_state) ==
    IF sorted = <<>> THEN <<item>>
    ELSE IF DateLeq(srs_state[sorted[Len(sorted)].item_id].due_at,
                    srs_state[item.item_id].due_at)
         THEN Append(sorted, item)
         ELSE Append(InsertByDue(SubSeq(sorted, 1, Len(sorted) - 1), item, srs_state),
                     sorted[Len(sorted)])

\* Mutant: the due items are left in catalog order
LeftUnsorted(items, srs_state) == items

\* list.sort(key=due_at): stable, ascending
RECURSIVE SortByDue(_, _)
SortByDue(items, srs_state) ==
    IF items = <<>> THEN <<>>
    ELSE InsertByDue(SortByDue(SubSeq(items, 1, Len(items) - 1), srs_state),
                     items[Len(items)], srs_state)

\* Mutant: unseen items come before a throttled review
choose_item_new_first(options, due_items, new_items, cursor, since_review) ==
    IF new_items # <<>>
    THEN [rule |-> 2, item |-> new_items[(cursor % Len(new_items)) + 1],
          new_cursor |-> cursor + 1, new_since_review |-> since_review + 1]
    ELSE IF due_items # <<>>
    THEN [rule |-> 3, item |-> due_items[1],
          new_cursor |-> cursor, new_since_review |-> 0]
    ELSE [rule |-> 4, item |-> options[(cursor % Len(options)) + 1],
          new_cursor |-> cursor + 1, new_since_review |-> since_review]

\* Mutant: a new-item selection is not counted
choose_item_uncounted(options, due_items, new_items, cursor, since_review) ==
    IF due_items # <<>> /\ since_review >= NewSinceReviewLimit
    THEN [rule |-> 1, item |-> due_items[1],
          new_cursor |-> cursor, new_since_review |-> 0]
    ELSE IF new_items # <<>>
    THEN [rule |-> 2, item |-> new_items[(cursor % Len(new_items)) + 1],
          new_cursor |-> cursor + 1, new_since_review |-> since_review]
    ELSE IF due_items # <<>>
    THEN [rule |-> 3, item |-> due_items[1],
          new_cursor |-> cursor, new_since_review |-> 0]
    ELSE [rule |-> 4, item |-> options[(cursor % Len(options)) + 1],
          new_cursor |-> cursor + 1, new_since_review |-> since_review]

\* The rule of _plan_next_activity that picks the item, and the counters after it
choose_item(options, due_items, new_items, cursor, since_review) ==
    IF due_items # <<>> /\ since_review >= NewSinceReviewLimit
    THEN [rule |-> 1, item |-> due_items[1],
          new_cursor |-> cursor, new_since_review |-> 0]
    ELSE IF new_items # <<>>
    THEN [rule |-> 2, item |-> new_items[(cursor % Len(new_items)) + 1],
          new_cursor |-> cursor + 1, new_since_review |-> since_review + 1]
    ELSE IF due_items # <<>>
    THEN [rule |-> 3, item |-> due_items[1],
          new_cursor |-> cursor, new_since_review |-> 0]
    ELSE [rule |-> 4, item |-> options[(cursor % Len(options)) + 1],
          new_cursor |-> cursor + 1, new_since_review |-> since_review]

\* Mutant: the pending activity carries the first phrase of the catalog
pending_for_first_phrase(item) ==
    [item_id |-> item.item_id, target |-> CurriculumItems[1].target,
     timebox_sec |-> TimeboxSec, attempts |-> 0]

\* Mutant: the attempt counter of a new pending activity starts at 1
pending_for_counted(item) ==
    [item_id |-> item.item_id, target |-> item.target,
     timebox_sec |-> TimeboxSec, attempts |-> 1]

\* The pending dictionary _plan_next_activity stores for an item
pending_for(item) ==
    [item_id |-> item.item_id, target |-> item.target,
     timebox_sec |-> TimeboxSec, attempts |-> 0]

\* Mutant: with no matching item the first item of the catalog is offered
plan_next_activity_fallback(state, tbl, t) ==
    LET options == for_goal_and_age(state.goal, state.age_band)
        srs_state == load_srs(tbl, state.user_id)
        IsDue(item) == /\ item.item_id \in DOMAIN srs_state
                       /\ DateLeq(srs_state[item.item_id].due_at, Timestamp(t))
        IsNew(item) == item.item_id \notin DOMAIN srs_state
        due_items == SortByDue(SelectSeq(options, IsDue), srs_state)
        new_items == SelectSeq(options, IsNew)
        chosen == IF options = <<>>
                  THEN [item |-> CurriculumItems[1], new_cursor |-> state.new_cursor,
                        new_since_review |-> state.new_since_review]
                  ELSE choose_item(options, due_items, new_items,
                                   state.new_cursor, state.new_since_review)
    IN  [err |-> "",
         state |-> [state EXCEPT !.new_cursor = chosen.new_cursor,
                                 !.new_since_review = chosen.new_since_review,
                                 !.pending = <<pending_for(chosen.item)>>],
         activity |-> <<[item_id |-> chosen.item.item_id,
                         target_phrase |-> chosen.item.target,
                         timebox_sec |-> TimeboxSec]>>]

\* _plan_next_activity, reading the progress table tbl at time t:
\* [err, state, activity]; raises ValueError when the track and age band
\* have no items
plan_next_activity(state, tbl, t) ==
    LET options == for_goal_and_age(state.goal, state.age_band)
    IN  IF options = <<>>
        THEN [err |-> "no_items", state |-> state, activity |-> <<>>]
        ELSE LET srs_state == load_srs(tbl, state.user_id)
                 IsDue(item) == /\ item.item_id \in DOMAIN srs_state
                                /\ DateLeq(srs_state[item.item_id].due_at, Timestamp(t))
                 IsNew(item) == item.item_id \notin DOMAIN srs_state
                 due_items == SortByDue(SelectSeq(options, IsDue), srs_state)
                 new_items == SelectSeq(options, IsNew)
                 chosen == choose_item(options, due_items, new_items,
                                       state.new_cursor, state.new_since_review)
             IN  [err |-> "",
                  state |-> [state EXCEPT !.new_cursor = chosen.new_cursor,
                                          !.new_since_review = chosen.new_since_review,
                                          !.pending = <<pending_for(chosen.item)>>],
                  activity |-> <<[item_id |-> chosen.item.item_id,
                                  target_phrase |-> chosen.item.target,
                                  timebox_sec |-> TimeboxSec]>>]

\* _activity_from_pending
activity_from_pending(pending) ==
    [item_id |-> pending.item_id, target_phrase |-> pending.target,
     timebox_sec |-> pending.timebox_sec]

\* _make_review_card
make_review_card(pending) ==
    [item_id |-> pending.item_id, target_phrase |-> pending.target,
     timebox_sec |-> ReviewTimeboxSec]

\* _snapshot
snapshot(session_id, state) ==
    [session_id |-> session_id, user_id |-> state.user_id,
     age_band |-> state.age_band, goal |-> state.goal, locale |-> state.locale,
     xp |-> state.xp, stickers |-> state.stickers, attempts |-> state.attempts]

\* _state_from_row
state_from_row(row) == json_loads(row.state_json)

\* The stored state of a session (the reading every call starts with)
StateOf(session_id) == state_from_row(sessions[session_id])

\* What a call answered: the call and its arguments, the error it raised
\* ("" when it returned), and the fields of its result (<<>> where absent).
NoRet ==
    [op |-> "none", session_id |-> "", user_id |-> "", args |-> <<>>,
     err |-> "", activity |-> <<>>, review_card |-> <<>>, mastery_delta |-> 0,
     award |-> <<>>, snapshot |-> <<>>, summary |-> <<>>]

-----------------------------------------------------------------------------
(* The inputs the calls are made with *)

Users == {"kid-1"}
Goals == {"greetings", "colors-numbers"}
NoteTexts == {"note-1", "note-2"}

\* The ids sessions get, in the order they are handed out; with one learner
\* "sess_a" is the session's id and "sess_b" an id no session has
SessionIds == <<"sess_a", "sess_b">>

\* The <<age_band, goal, locale>> a session is started with
Profiles ==
    { <<"5-6", "greetings", "zh-CN">>, <<"9-10", "colors-numbers", "zh-TW">>,
      <<"5-6", "custom", "zh-CN">> }

\* uuid4 draws an id no session has; ids are interchangeable, so the model
\* takes the first unused one
FreshSessionId ==
    SessionIds[CHOOSE i \in DOMAIN SessionIds :
                  /\ SessionIds[i] \notin DOMAIN sessions
                  /\ \A j \in 1..(i - 1) : SessionIds[j] \in DOMAIN sessions]

\* The first word of a phrase
RECURSIVE FirstWord(_)
FirstWord(text) ==
    IF text = <<>> \/ text[1] \in Whitespace THEN <<>>
    ELSE <<text[1]>> \o FirstWord(Tail(text))

\* What a learner says to a prompt with this target: the phrase itself,
\* nothing, or its first word trailing off
Replies(target) == {target, <<>>, FirstWord(target) \o Ellipsis}

\* The utterances tried on a session: replies to the activity the call scores
\* (the pending one, or the one the call plans first)
UtterancesFor(session_id) ==
    IF session_id \notin DOMAIN sessions THEN {<<>>}
    ELSE LET state  == StateOf(session_id)
             healed == plan_next_activity(state, progress, now)
         IN  IF state.pending # <<>> THEN Replies(state.pending[1].target)
             ELSE IF healed.err = "" THEN Replies(healed.state.pending[1].target)
             ELSE {<<>>}

-----------------------------------------------------------------------------
(* server.py: the tools *)

\* Mutant: a resumed session is always planned for
resume_always_plans(state) == TRUE

\* start_session, line 176: a resumed session is planned for only when it
\* has no pending activity
resume_needs_plan(state) == state.pending = <<>>

\* start_session
StartSession(user_id, age_band, goal, locale) ==
    LET latest == get_latest_session_for_user(sessions, user_id)
        call   == [NoRet EXCEPT !.op = "start_session", !.user_id = user_id,
                                !.args = <<age_band, goal, locale>>]
    IN  /\ IF latest # {}
           THEN \E session_id \in latest :
                  LET state    == [StateOf(session_id) EXCEPT
                                      !.user_id = user_id, !.age_band = age_band,
                                      !.goal = goal, !.locale = locale]
                      upserted == upsert_session(sessions, session_id, user_id,
                                                 age_band, goal, locale, state, now)
                      planned  == plan_next_activity(state, progress, now)
                  IN  IF ~resume_needs_plan(state)
                      THEN /\ sessions' = upserted
                           /\ ret' = [call EXCEPT
                                 !.session_id = session_id,
                                 !.activity = <<activity_from_pending(state.pending[1])>>,
                                 !.snapshot = <<snapshot(session_id, state)>>]
                      ELSE IF planned.err # ""
                      THEN /\ sessions' = upserted
                           /\ ret' = [call EXCEPT !.err = planned.err]
                      ELSE /\ sessions' = update_session_state(upserted, session_id,
                                                               planned.state, now)
                           /\ ret' = [call EXCEPT
                                 !.session_id = session_id,
                                 !.activity = planned.activity,
                                 !.snapshot = <<snapshot(session_id, planned.state)>>]
           ELSE LET session_id == FreshSessionId
                      state    == [user_id |-> user_id, age_band |-> age_band,
                                   goal |-> goal, locale |-> locale, xp |-> 0,
                                   stickers |-> 0, pending |-> <<>>, new_cursor |-> 0,
                                   new_since_review |-> 0, attempts |-> <<>>]
                      upserted == upsert_session(sessions, session_id, user_id,
                                                 age_band, goal, locale, state, now)
                      planned  == plan_next_activity(state, progress, now)
                  IN  IF planned.err # ""
                      THEN /\ sessions' = upserted
                           /\ ret' = [call EXCEPT !.err = planned.err]
                      ELSE /\ sessions' = update_session_state(upserted, session_id,
                                                               planned.state, now)
                           /\ ret' = [call EXCEPT
                                 !.session_id = session_id,
                                 !.activity = planned.activity,
                                 !.snapshot = <<snapshot(session_id, planned.state)>>]
        /\ UNCHANGED <<progress, notes, now>>

\* next_activity
NextActivity(session_id) ==
    LET call == [NoRet EXCEPT !.op = "next_activity", !.session_id = session_id]
        got  == get_session(sessions, session_id)
    IN  /\ IF got = <<>>
           THEN /\ ret' = [call EXCEPT !.err = "not_found"]
                /\ UNCHANGED sessions
           ELSE LET row     == got[1]
                    planned == plan_next_activity(state_from_row(row), progress, now)
                IN  IF planned.err # ""
                    THEN /\ ret' = [call EXCEPT !.err = planned.err]
                         /\ UNCHANGED sessions
                    ELSE /\ sessions' = update_session_state(sessions, row.session_id,
                                                             planned.state, now)
                         /\ ret' = [call EXCEPT !.activity = planned.activity]
        /\ UNCHANGED <<progress, notes, now>>

\* Mutant: a sticker with every award
stickers_after_always(stickers_before, xp_after, xp_delta) ==
    IF xp_delta # 0 THEN stickers_before + 1 ELSE stickers_before

\* Mutant: >= for >
stickers_after_ge(stickers_before, xp_after, xp_delta) ==
    IF xp_delta # 0 /\ xp_after \div BadgeStep >= stickers_before
    THEN stickers_before + 1
    ELSE stickers_before

\* The badge rule of submit_utterance: the sticker count after xp_delta was added
stickers_after(stickers_before, xp_after, xp_delta) ==
    IF xp_delta # 0 /\ xp_after \div BadgeStep > stickers_before
    THEN stickers_before + 1
    ELSE stickers_before

\* Mutant: the retry is not counted
retry_pending_uncounted(pending) == pending

\* submit_utterance, line 277: pending["attempts"] += 1
retry_pending(pending) == [pending EXCEPT !.attempts = @ + 1]

\* submit_utterance.  Lines 236-238 raise ValueError("Pending activity
\* missing") when the state has no pending activity after the Scheduler ran.
SubmitUtterance(session_id, utterance_text) ==
    LET call == [NoRet EXCEPT !.op = "submit_utterance", !.session_id = session_id,
                              !.args = <<utterance_text>>]
        got  == get_session(sessions, session_id)
    IN  /\ IF got = <<>>
           THEN /\ ret' = [call EXCEPT !.err = "not_found"]
                /\ UNCHANGED <<sessions, progress>>
           ELSE LET row    == got[1]
                    loaded == state_from_row(row)
                    healed == IF loaded.pending = <<>>
                              THEN plan_next_activity(loaded, progress, now)
                              ELSE [err |-> "", state |-> loaded, activity |-> <<>>]
                IN  /\ IF healed.err # ""
                       THEN /\ ret' = [call EXCEPT !.err = healed.err]
                            /\ UNCHANGED <<sessions, progress>>
                       ELSE LET state0     == healed.state
                                sessions1  == IF loaded.pending = <<>>
                                              THEN update_session_state(sessions, row.session_id,
                                                                        state0, now)
                                              ELSE sessions
                                pending    == state0.pending[1]
                                evaluation == evaluate_utterance(utterance_text, pending.target)
                                outcome    == score_to_outcome(total(evaluation))
                                xp_delta   == xp_for_outcome(outcome)
                                xp         == state0.xp + xp_delta
                                stickers   == stickers_after(state0.stickers, xp, xp_delta)
                                award      == IF xp_delta # 0
                                              THEN <<[xp |-> xp_delta, stickers |-> stickers]>>
                                              ELSE <<>>
                                srs_state  == load_srs(progress, row.user_id)
                                item       == IF pending.item_id \in DOMAIN srs_state
                                              THEN srs_state[pending.item_id]
                                              ELSE SRSItem
                                progress1  == upsert_progress(progress, row.user_id,
                                                 pending.item_id, schedule(item, outcome, now))
                                attempt_log == [item_id |-> pending.item_id,
                                                outcome |-> outcome,
                                                score |-> total(evaluation),
                                                timestamp |-> now]
                                state1     == [state0 EXCEPT
                                                 !.xp = xp, !.stickers = stickers,
                                                 !.attempts = Append(@, attempt_log)]
                                feedback   == [call EXCEPT
                                                 !.mastery_delta =
                                                     mastery_delta_for_outcome(outcome),
                                                 !.award = award]
                            IN  IF state0.pending = <<>>
                                THEN /\ progress' = progress
                                     /\ sessions' = sessions1
                                     /\ ret' = [call EXCEPT !.err = "pending_missing"]
                                ELSE IF schedule_raises(item, outcome, now)
                                THEN /\ progress' = progress
                                     /\ sessions' = sessions1
                                     /\ ret' = [call EXCEPT !.err = "overflow"]
                                ELSE
                                /\ progress' = progress1
                                /\ IF outcome = "fail"
                                   THEN LET retried == retry_pending(pending)
                                            state2  == [state1 EXCEPT !.pending = <<retried>>]
                                        IN  /\ sessions' = update_session_state(
                                                   sessions1, row.session_id, state2, now)
                                            /\ ret' = [feedback EXCEPT !.review_card =
                                                         <<make_review_card(retried)>>]
                                   ELSE LET planned == plan_next_activity(state1, progress1, now)
                                        IN  IF planned.err # ""
                                            THEN /\ sessions' = sessions1
                                                 /\ ret' = [call EXCEPT !.err = planned.err]
                                            ELSE /\ sessions' = update_session_state(
                                                        sessions1, row.session_id,
                                                        planned.state, now)
                                                 /\ ret' = [feedback EXCEPT
                                                              !.activity = planned.activity]
        /\ UNCHANGED <<notes, now>>

\* Mutant: a change of goal starts the attempt log afresh
goal_reset_clears_log(state, goal) ==
    [state EXCEPT !.goal = goal, !.new_cursor = 0, !.new_since_review = 0,
                  !.pending = <<>>, !.attempts = <<>>]

\* Mutant: the pending activity survives the change of goal
goal_reset_keeps_pending(state, goal) ==
    [state EXCEPT !.goal = goal, !.new_cursor = 0, !.new_since_review = 0]

\* set_goal, lines 300-303
goal_reset(state, goal) ==
    [state EXCEPT !.goal = goal, !.new_cursor = 0,
                  !.new_since_review = 0, !.pending = <<>>]

\* set_goal
SetGoal(session_id, goal) ==
    LET call == [NoRet EXCEPT !.op = "set_goal", !.session_id = session_id,
                              !.args = <<goal>>]
        got  == get_session(sessions, session_id)
    IN  /\ IF got = <<>>
           THEN /\ ret' = [call EXCEPT !.err = "not_found"]
                /\ UNCHANGED sessions
           ELSE LET row   == got[1]
                    state == goal_reset(state_from_row(row), goal)
                IN  /\ sessions' = update_session_state(sessions, row.session_id,
                                                        state, now)
                    /\ ret' = [call EXCEPT !.snapshot = <<snapshot(session_id, state)>>]
        /\ UNCHANGED <<progress, notes, now>>

\* Mutant: the first n elements, seq[:n]
FirstN(seq, n) == SubSeq(seq, 1, Min(n, Len(seq)))

\* The last n elements of a sequence: seq[-n:]
LastN(seq, n) == SubSeq(seq, Max(1, Len(seq) - n + 1), Len(seq))

RecentCount == 5   \* [-5:] of the attempted item ids

\* get_progress
GetProgress(user_id) ==
    LET latest == get_latest_session_for_user(sessions, user_id)
        due_reviews == Cardinality({item_id \in iter_progress(progress, user_id) :
                                       DateLeq(progress[<<user_id, item_id>>].due_at,
                                               Timestamp(now))})
        call == [NoRet EXCEPT !.op = "get_progress", !.user_id = user_id]
    IN  /\ IF latest = {}
           THEN ret' = [call EXCEPT !.summary =
                          <<[xp |-> 0, stickers |-> 0, recent_items |-> <<>>,
                             due_reviews |-> due_reviews]>>]
           ELSE \E session_id \in latest :
                  LET state == StateOf(session_id)
                  IN  ret' = [call EXCEPT !.summary =
                                <<[xp |-> state.xp, stickers |-> state.stickers,
                                   recent_items |->
                                       LastN([i \in DOMAIN state.attempts |->
                                                 state.attempts[i].item_id], RecentCount),
                                   due_reviews |-> due_reviews]>>]
        /\ UNCHANGED <<sessions, progress, notes, now>>

\* save_note_for_parent
SaveNoteForParent(session_id, note_cn) ==
    /\ notes' = save_parent_note(notes, session_id, note_cn, now)
    /\ ret' = [NoRet EXCEPT !.op = "save_note_for_parent", !.session_id = session_id,
                            !.args = <<note_cn>>]
    /\ UNCHANGED <<sessions, progress, now>>

\* A day passes between two calls.
Tick ==
    /\ now' = now + DaySeconds
    /\ UNCHANGED <<sessions, progress, notes, ret>>

-----------------------------------------------------------------------------
(* server.py under the ThreadingHTTPServer of sse_server.py.  Every request *)
(* is served by a thread of its own on the one KidEnglishMCPServer; every   *)
(* store method opens a connection, runs one statement and commits          *)
(* (db.py, _connect), so a call is a sequence of separate store accesses    *)
(* and the accesses of two calls in flight interleave.                      *)

\* The handler threads that can be in flight together
Threads == {"t1", "t2"}

\* A thread serving nothing.  A thread's locals: the call (growing into its
\* result), the session it resolved, the row's learner, the state dictionary,
\* whether start_session found a session, whether the plan under way is the
\* one submit_utterance makes first for a session without pending activity,
\* the rescheduled record waiting to be written, the scored outcome, and how
\* many of its store accesses changed what is stored.
NoThread ==
    [pc |-> "done", call |-> NoRet, session_id |-> "", user_id |-> "",
     state |-> <<>>, resumed |-> FALSE, healing |-> FALSE, item |-> <<>>,
     outcome |-> "", changes |-> 0]

NoThreads == [t \in Threads |-> NoThread]

\* uuid4 in a thread: an id no session has and no other thread has drawn
FreshSessionIdIn(t) ==
    SessionIds[CHOOSE i \in DOMAIN SessionIds :
                  LET Taken(id) == \/ id \in DOMAIN sessions
                                   \/ \E o \in Threads \ {t} :
                                         threads[o].pc # "done" /\ threads[o].session_id = id
                  IN  /\ ~Taken(SessionIds[i])
                      /\ \A j \in 1..(i - 1) : Taken(SessionIds[j])]

\* Whether a store access changed what is stored
Changed == IF <<sessions', progress'>> # <<sessions, progress>> THEN 1 ELSE 0

\* The thread returns (or raises): the call's answer becomes visible
Return(t, th, answer) ==
    /\ threads' = [threads EXCEPT ![t] = [th EXCEPT !.pc = "done", !.call = answer]]
    /\ ret' = answer

\* The thread goes on to its next store access
Goto(t, th, pc) ==
    /\ threads' = [threads EXCEPT ![t] = [th EXCEPT !.pc = pc]]
    /\ ret' = ret

\* A request arrives and a thread starts serving it
Request(t, call) ==
    /\ threads[t].pc = "done"
    /\ threads' = [threads EXCEPT ![t] =
          [NoThread EXCEPT !.call = call,
                           !.pc = IF call.op = "start_session"
                                  THEN "get_latest_session_for_user"
                                  ELSE "get_session"]]
    /\ UNCHANGED <<sessions, progress, notes, now, ret>>

\* start_session, line 159: the learner's latest session is looked up
GetLatest(t) ==
    LET th     == threads[t]
        call   == th.call
        latest == get_latest_session_for_user(sessions, call.user_id)
    IN  /\ th.pc = "get_latest_session_for_user"
        /\ IF latest # {}
           THEN \E session_id \in latest :
                  Goto(t, [th EXCEPT
                             !.session_id = session_id, !.user_id = call.user_id,
                             !.resumed = TRUE,
                             !.state = <<[StateOf(session_id) EXCEPT
                                            !.user_id = call.user_id,
                                            !.age_band = call.args[1],
                                            !.goal = call.args[2],
                                            !.locale = call.args[3]]>>],
                       "upsert_session")
           ELSE Goto(t, [th EXCEPT
                           !.session_id = FreshSessionIdIn(t), !.user_id = call.user_id,
                           !.resumed = FALSE,
                           !.state = <<[user_id |-> call.user_id,
                                        age_band |-> call.args[1], goal |-> call.args[2],
                                        locale |-> call.args[3], xp |-> 0, stickers |-> 0,
                                        pending |-> <<>>, new_cursor |-> 0,
                                        new_since_review |-> 0, attempts |-> <<>>]>>],
                     "upsert_session")
        /\ UNCHANGED <<sessions, progress, notes, now>>

\* start_session, lines 167 and 202: the row is written, then a resumed
\* session with a pending activity answers with it
Upsert(t) ==
    LET th    == threads[t]
        state == th.state[1]
    IN  /\ th.pc = "upsert_session"
        /\ sessions' = upsert_session(sessions, th.session_id, th.user_id,
                                      state.age_band, state.goal, state.locale,
                                      state, now)
        /\ progress' = progress
        /\ LET after == [th EXCEPT !.changes = @ + Changed]
           IN  IF th.resumed /\ ~resume_needs_plan(state)
               THEN Return(t, after,
                      [th.call EXCEPT
                          !.session_id = th.session_id,
                          !.activity = <<activity_from_pending(state.pending[1])>>,
                          !.snapshot = <<snapshot(th.session_id, state)>>])
               ELSE Goto(t, after, "plan")
        /\ UNCHANGED <<notes, now>>

\* _load_state, lines 364-369, and what the tool does with the state before
\* its next store access
GetSession(t) ==
    LET th   == threads[t]
        call == th.call
        got  == get_session(sessions, call.session_id)
    IN  /\ th.pc = "get_session"
        /\ IF got = <<>>
           THEN Return(t, th, [call EXCEPT !.err = "not_found"])
           ELSE LET row    == got[1]
                    state  == state_from_row(row)
                    loaded == [th EXCEPT !.session_id = row.session_id,
                                         !.user_id = row.user_id,
                                         !.state = <<state>>]
                IN  CASE call.op = "next_activity" -> Goto(t, loaded, "plan")
                      [] call.op = "set_goal" ->
                            Goto(t, [loaded EXCEPT
                                       !.state = <<goal_reset(state, call.args[1])>>],
                                 "persist")
                      [] call.op = "submit_utterance" ->
                            IF state.pending = <<>>
                            THEN Goto(t, [loaded EXCEPT !.healing = TRUE], "plan")
                            ELSE Goto(t, loaded, "load_srs")
        /\ UNCHANGED <<sessions, progress, notes, now>>

\* _plan_next_activity: the learner's records are read and the state
\* dictionary is updated; with no curriculum items it raises
Plan(t) ==
    LET th      == threads[t]
        planned == plan_next_activity(th.state[1], progress, now)
    IN  /\ th.pc = "plan"
        /\ IF planned.err # ""
           THEN Return(t, th, [NoRet EXCEPT !.op = th.call.op,
                                            !.session_id = th.call.session_id,
                                            !.user_id = th.call.user_id,
                                            !.args = th.call.args,
                                            !.err = planned.err])
           ELSE Goto(t, [th EXCEPT
                           !.state = <<planned.state>>,
                           !.call = IF th.healing THEN @
                                    ELSE [@ EXCEPT !.activity = planned.activity]],
                     "persist")
        /\ UNCHANGED <<sessions, progress, notes, now>>

\* _persist_state: the state dictionary is written; submit_utterance goes
\* on to score when this was its first plan, every other call returns
Persist(t) ==
    LET th    == threads[t]
        state == th.state[1]
    IN  /\ th.pc = "persist"
        /\ sessions' = update_session_state(sessions, th.session_id, state, now)
        /\ progress' = progress
        /\ LET after == [th EXCEPT !.changes = @ + Changed]
           IN  IF th.healing
               THEN Goto(t, [after EXCEPT !.healing = FALSE], "load_srs")
               ELSE Return(t, after,
                      CASE th.call.op = "start_session" ->
                             [th.call EXCEPT
                                 !.session_id = th.session_id,
                                 !.snapshot = <<snapshot(th.session_id, state)>>]
                        [] th.call.op = "set_goal" ->
                             [th.call EXCEPT
                                 !.snapshot = <<snapshot(th.call.session_id, state)>>]
                        [] OTHER -> th.call)
        /\ UNCHANGED <<notes, now>>

\* submit_utterance, lines 236-272: the utterance is scored against the
\* pending activity, the learner's records are read and the item's record is
\* rescheduled in memory; an OverflowError of schedule ends the call
LoadSrs(t) ==
    LET th         == threads[t]
        state0     == th.state[1]
        pending    == state0.pending[1]
        evaluation == evaluate_utterance(th.call.args[1], pending.target)
        outcome    == score_to_outcome(total(evaluation))
        xp_delta   == xp_for_outcome(outcome)
        xp         == state0.xp + xp_delta
        stickers   == stickers_after(state0.stickers, xp, xp_delta)
        srs_state  == load_srs(progress, th.user_id)
        item       == IF pending.item_id \in DOMAIN srs_state
                      THEN srs_state[pending.item_id]
                      ELSE SRSItem
        attempt_log == [item_id |-> pending.item_id, outcome |-> outcome,
                        score |-> total(evaluation), timestamp |-> now]
    IN  /\ th.pc = "load_srs"
        /\ IF state0.pending = <<>>
           THEN Return(t, th, [th.call EXCEPT !.err = "pending_missing"])
           ELSE IF schedule_raises(item, outcome, now)
           THEN Return(t, th, [th.call EXCEPT !.err = "overflow"])
           ELSE
           Goto(t, [th EXCEPT
                      !.state = <<[state0 EXCEPT !.xp = xp, !.stickers = stickers,
                                                 !.attempts = Append(@, attempt_log)]>>,
                      !.item = <<schedule(item, outcome, now)>>,
                      !.outcome = outcome,
                      !.call = [@ EXCEPT
                                  !.mastery_delta = mastery_delta_for_outcome(outcome),
                                  !.award = IF xp_delta # 0
                                            THEN <<[xp |-> xp_delta, stickers |-> stickers]>>
                                            ELSE <<>>]],
                "persist_srs")
        /\ UNCHANGED <<sessions, progress, notes, now>>

\* _persist_srs, line 264: the record is written; after a fail the pending
\* activity is kept for a retry, otherwise the next one is planned
PersistSrs(t) ==
    LET th      == threads[t]
        state   == th.state[1]
        pending == state.pending[1]
    IN  /\ th.pc = "persist_srs"
        /\ progress' = upsert_progress(progress, th.user_id, pending.item_id, th.item[1])
        /\ sessions' = sessions
        /\ LET after == [th EXCEPT !.changes = @ + Changed]
           IN  IF th.outcome = "fail"
               THEN LET retried == retry_pending(pending)
                    IN  Goto(t, [after EXCEPT
                                   !.state = <<[state EXCEPT !.pending = <<retried>>]>>,
                                   !.call = [@ EXCEPT !.review_card =
                                               <<make_review_card(retried)>>]],
                             "persist")
               ELSE Goto(t, after, "plan")
        /\ UNCHANGED <<notes, now>>

-----------------------------------------------------------------------------
(* sse_server.py: the HTTP server, its SSE streams and its invoke endpoint. *)
(* Every request is handled in a thread of its own; here threads maps a     *)
(* connection to the position and locals of its handler.                    *)

\* SSEConnectionManager.__init__: no stream is registered.  queues maps a
\* stream id to its queue object (a number), items a queue object to the
\* messages waiting in it.
NoStreams == [queues |-> <<>>, items |-> <<>>]

\* SSEConnectionManager.register: the queue of the stream, created if missing
register(mgr, stream_id) ==
    IF stream_id \in DOMAIN mgr.queues THEN mgr
    ELSE [queues |-> Put(mgr.queues, stream_id, Len(mgr.items) + 1),
          items |-> Append(mgr.items, <<>>)]

\* SSEConnectionManager.publish, lines 50-51: self._queues.get(stream_id),
\* 0 for None
lookup(mgr, stream_id) ==
    IF stream_id \in DOMAIN mgr.queues THEN mgr.queues[stream_id] ELSE 0

\* SSEConnectionManager.publish, lines 52-53: q.put(message) unless q is None
put(mgr, q, message) ==
    IF q = 0 THEN mgr ELSE [mgr EXCEPT !.items[q] = Append(@, message)]

\* SSEConnectionManager.discard
discard(mgr, stream_id) ==
    [mgr EXCEPT !.queues = [k \in (DOMAIN @) \ {stream_id} |-> @[k]]]

\* The connections a client can hold, each served by one handler at a time
Connections == {"c1", "c2", "c3"}

\* The stream ids clients choose, the ids they give their requests, and the
\* ids uuid4 can return
StreamIds == {"s1"}
RequestIds == {"req-1"}
Uuids == {"uuid-1", "uuid-2"}

\* TOOL_DESCRIPTIONS, in order
ToolNames ==
    <<"start_session", "next_activity", "submit_utterance", "set_goal",
      "get_progress", "save_note_for_parent">>

\* list_tools
list_tools == [tools |-> ToolNames]

\* What the model lets a client name as tool: the attributes of the server
\* object that the model can call
Attributes == {"start_session", "list_tools"}

NoRequest ==
    [verb |-> "", path |-> "", stream_id |-> "", tool |-> "",
     arguments |-> <<>>, id |-> ""]

\* A handler serving nothing
NoConnection ==
    [pc |-> "idle", request |-> NoRequest, queue |-> 0, message |-> <<>>,
     hung_up |-> FALSE]

\* The bodies POSTed: a tool call to be answered on a stream or in the
\* response, for a track with and without items; tool discovery; a request
\* without tool, for an unknown tool, and to another path
Posts ==
    { [verb |-> "POST", path |-> path, stream_id |-> s, tool |-> "start_session",
       arguments |-> <<"kid-1", "5-6", goal, "zh-CN">>, id |-> id] :
         path \in {"/invoke", "/messages"}, s \in StreamIds \cup {""},
         goal \in {"greetings", "custom"}, id \in RequestIds }
    \cup
    { [verb |-> "POST", path |-> "/invoke", stream_id |-> "", tool |-> tool,
       arguments |-> <<>>, id |-> id] :
         tool \in {"list_tools", "tools.list", ""}, id \in RequestIds }

\* What the server wrote to a connection: a response (status and body) or an
\* event of a stream; a response is kept with the request it answers
Response(c, status, data) ==
    [conn |-> c, kind |-> "response", status |-> status, data |-> data,
     request |-> threads[c].request]
Event(c, message) ==
    [conn |-> c, kind |-> "event", status |-> 0, data |-> message,
     request |-> threads[c].request]

\* A request arrives on a free connection: GET /sse?stream=<id>
Get(c, stream_id) ==
    /\ threads[c].pc \in {"idle", "closed"}
    /\ threads' = [threads EXCEPT ![c] =
          [NoConnection EXCEPT !.pc = "register",
                               !.request = [NoRequest EXCEPT !.verb = "GET",
                                                             !.path = "/sse",
                                                             !.stream_id = stream_id]]]
    /\ UNCHANGED <<sessions, progress, notes, now, ret, manager, wire>>

\* _handle_events, lines 93-105: the stream is registered, then the response
\* headers and the first comment are sent
Register(c) ==
    LET stream_id == threads[c].request.stream_id
    IN  /\ threads[c].pc = "register"
        /\ manager' = register(manager, stream_id)
        /\ threads' = [threads EXCEPT ![c].pc = "get",
                                      ![c].queue = manager'.queues[stream_id]]
        /\ wire' = Append(wire, Response(c, 200, <<>>))
        /\ UNCHANGED <<sessions, progress, notes, now, ret>>

\* _handle_events, lines 110-122: a message is taken from the queue and
\* written as an event; a message marked done ends the loop.  Writing to a
\* connection the client has closed raises and ends the loop as well.
Deliver(c) ==
    LET q == threads[c].queue
    IN  /\ threads[c].pc = "get"
        /\ manager.items[q] # <<>>
        /\ manager' = [manager EXCEPT !.items[q] = Tail(@)]
        /\ LET message == Head(manager.items[q])
           IN  IF threads[c].hung_up
               THEN /\ wire' = wire
                    /\ threads' = [threads EXCEPT ![c].pc = "discard"]
               ELSE /\ wire' = Append(wire, Event(c, message))
                    /\ threads' = [threads EXCEPT ![c].pc =
                                      IF message.done THEN "discard" ELSE "get"]
        /\ UNCHANGED <<sessions, progress, notes, now, ret>>

\* _handle_events, lines 111-114 and 123: the queue stayed empty for
\* HEARTBEAT_INTERVAL; the heartbeat written to a closed connection raises
Heartbeat(c) ==
    /\ threads[c].pc = "get"
    /\ manager.items[threads[c].queue] = <<>>
    /\ threads[c].hung_up
    /\ threads' = [threads EXCEPT ![c].pc = "discard"]
    /\ UNCHANGED <<sessions, progress, notes, now, ret, manager, wire>>

\* _handle_events, line 126
Discard(c) ==
    /\ threads[c].pc = "discard"
    /\ manager' = discard(manager, threads[c].request.stream_id)
    /\ threads' = [threads EXCEPT ![c].pc = "closed"]
    /\ UNCHANGED <<sessions, progress, notes, now, ret, wire>>

\* The client closes its stream
ClientCloses(c) ==
    /\ threads[c].pc = "get"
    /\ ~threads[c].hung_up
    /\ threads' = [threads EXCEPT ![c].hung_up = TRUE]
    /\ UNCHANGED <<sessions, progress, notes, now, ret, manager, wire>>

\* A request arrives on a free connection: POST with a JSON body
Post(c, request) ==
    /\ threads[c].pc \in {"idle", "closed"}
    /\ threads' = [threads EXCEPT ![c] =
          [NoConnection EXCEPT !.pc = "invoke", !.request = request]]
    /\ UNCHANGED <<sessions, progress, notes, now, ret, manager, wire>>

\* do_POST and _handle_invoke, lines 75-181 without the publish: the request
\* is routed and checked, the tool is called, and the result is answered in
\* the response or kept for the stream
Invoke(c) ==
    LET request == threads[c].request
        Answer(status, data) ==
            /\ wire' = Append(wire, Response(c, status, data))
            /\ threads' = [threads EXCEPT ![c].pc = "closed"]
        Result(id, result) ==
            IF request.stream_id # ""
            THEN /\ wire' = wire
                 /\ threads' = [threads EXCEPT
                       ![c].pc = "publish",
                       ![c].message = <<[id |-> id, tool |-> request.tool,
                                         result |-> result, done |-> TRUE]>>]
            ELSE Answer(200, <<[id |-> id, tool |-> request.tool, result |-> result]>>)
        Untouched == UNCHANGED <<sessions, progress, notes, now, ret>>
    IN  /\ threads[c].pc = "invoke"
        /\ manager' = manager
        /\ IF request.path # "/invoke" THEN Answer(404, <<>>) /\ Untouched
           ELSE IF request.tool = "" THEN Answer(400, <<>>) /\ Untouched
           ELSE IF request.tool \notin Attributes THEN Answer(404, <<>>) /\ Untouched
           ELSE IF request.tool = "list_tools"
           THEN /\ \E id \in Uuids : Result(id, list_tools)
                /\ Untouched
           ELSE /\ StartSession(request.arguments[1], request.arguments[2],
                                request.arguments[3], request.arguments[4])
                /\ IF ret'.err # ""
                   THEN Answer(500, <<>>)
                   ELSE \E id \in Uuids :
                          Result(id, [session_id |-> ret'.session_id,
                                      next_activity |-> ret'.activity[1],
                                      state_snapshot |-> ret'.snapshot[1]])

\* SSEConnectionManager.publish, lines 50-51, called at line 171: the queue
\* of the stream is looked up under the lock
Lookup(c) ==
    /\ threads[c].pc = "publish"
    /\ threads' = [threads EXCEPT ![c].pc = "put",
                                  ![c].queue = lookup(manager, threads[c].request.stream_id)]
    /\ UNCHANGED <<sessions, progress, notes, now, ret, manager, wire>>

\* SSEConnectionManager.publish, lines 52-53: the message is put into the
\* queue found, outside the lock
PutMessage(c) ==
    /\ threads[c].pc = "put"
    /\ manager' = put(manager, threads[c].queue, threads[c].message[1])
    /\ threads' = [threads EXCEPT ![c].pc = "respond"]
    /\ UNCHANGED <<sessions, progress, notes, now, ret, wire>>

\* _handle_invoke, lines 172-176: the call is acknowledged as queued
Accept(c) ==
    /\ threads[c].pc = "respond"
    /\ wire' = Append(wire, Response(c, 202,
                   <<[status |-> "queued", stream |-> threads[c].request.stream_id]>>))
    /\ threads' = [threads EXCEPT ![c].pc = "closed"]
    /\ UNCHANGED <<sessions, progress, notes, now, ret, manager>>

-----------------------------------------------------------------------------
(* Reading a step.  A step is a call when it leaves the clock alone; ret'  *)
(* is then what the call answered, the unprimed store what it found and   *)
(* the primed store what it left.                                         *)

IsCall(op) == calls' = calls + 1 /\ now' = now /\ ret'.op = op

\* The stored state of a session after the step
After(session_id) == state_from_row(sessions'[session_id])

\* The state submit_utterance scores against: the stored one, or the one it
\* plans first when nothing is pending
Scored(session_id) ==
    IF StateOf(session_id).pending # <<>> THEN StateOf(session_id)
    ELSE plan_next_activity(StateOf(session_id), progress, now).state

\* The outcome of an utterance against a target
OutcomeOf(utterance, target) ==
    score_to_outcome(total(evaluate_utterance(utterance, target)))

\* itemsFor(track, ageBand): the ids of the catalog items of the track whose
\* age range overlaps the band
ItemsFor(track, age_band) ==
    {CurriculumItems[i].item_id : i \in
        {j \in DOMAIN CurriculumItems :
            /\ CurriculumItems[j].track = track
            /\ CurriculumItems[j].min_age <= parse_age_range(age_band)[2]
            /\ CurriculumItems[j].max_age >= parse_age_range(age_band)[1]}}

\* The catalog positions of the candidates of a session state
CandidateIdx(state) ==
    {j \in DOMAIN CurriculumItems :
        CurriculumItems[j].item_id \in ItemsFor(state.goal, state.age_band)}

\* The candidates with a scheduling record in tbl due at or before t
DueIdx(state, tbl, t) ==
    {j \in CandidateIdx(state) :
        /\ <<state.user_id, CurriculumItems[j].item_id>> \in DOMAIN tbl
        /\ DateLeq(tbl[<<state.user_id, CurriculumItems[j].item_id>>].due_at, Timestamp(t))}

\* The candidates without a scheduling record in tbl
UnseenIdx(state, tbl) ==
    {j \in CandidateIdx(state) :
        <<state.user_id, CurriculumItems[j].item_id>> \notin DOMAIN tbl}

\* A selection of item_id by a Scheduler run on state and tbl: it went through
\* the new-item rule exactly when the item has no scheduling record (the due
\* rules select items with a record, the last rule runs when no candidate is
\* without one).  The entry keeps the candidates that were unseen then.
Picked(session_id, state, tbl, item_id) ==
    IF <<state.user_id, item_id>> \notin DOMAIN tbl
    THEN <<[session_id |-> session_id, item_id |-> item_id,
            unseen |-> {CurriculumItems[j].item_id : j \in UnseenIdx(state, tbl)}]>>
    ELSE <<>>

\* The new-item selections of the step, in the order they were made
NewPicks ==
    IF now' # now \/ ret'.err # "" \/ ret'.session_id \notin DOMAIN sessions'
    THEN <<>>
    ELSE LET sid == ret'.session_id
         IN  CASE ret'.op = "next_activity" ->
                    Picked(sid, StateOf(sid), progress, ret'.activity[1].item_id)
               [] ret'.op = "start_session" ->
                    IF sid \in DOMAIN sessions /\ StateOf(sid).pending # <<>>
                    THEN <<>>
                    ELSE Picked(sid, After(sid), progress, ret'.activity[1].item_id)
               [] ret'.op = "submit_utterance" ->
                    (IF StateOf(sid).pending = <<>>
                     THEN Picked(sid, StateOf(sid), progress,
                                 Scored(sid).pending[1].item_id)
                     ELSE <<>>)
                    \o (IF ret'.activity # <<>>
                        THEN Picked(sid, Scored(sid), progress',
                                    ret'.activity[1].item_id)
                        ELSE <<>>)
               [] OTHER -> <<>>

\* The history of new-item selections is extended by those of the step
Observed == picks' = picks \o NewPicks

\* A run of the Scheduler on state and tbl at time t that selected item_id:
\* whether a candidate was due at the run, and whether the selection was a
\* new-item selection (the item had no scheduling record)
Ran(session_id, state, tbl, t, item_id) ==
    <<[session_id |-> session_id, kind |-> "run", item_id |-> item_id,
       due |-> DueIdx(state, tbl, t) # {},
       new |-> <<state.user_id, item_id>> \notin DOMAIN tbl]>>

\* The Scheduler runs of the step, in the order they were made, and the
\* set_goal calls
Runs ==
    IF now' # now \/ ret'.err # "" \/ ret'.session_id \notin DOMAIN sessions'
    THEN <<>>
    ELSE LET sid == ret'.session_id
         IN  CASE ret'.op = "next_activity" ->
                    Ran(sid, StateOf(sid), progress, now, ret'.activity[1].item_id)
               [] ret'.op = "start_session" ->
                    IF sid \in DOMAIN sessions /\ StateOf(sid).pending # <<>>
                    THEN <<>>
                    ELSE Ran(sid, After(sid), progress, now, ret'.activity[1].item_id)
               [] ret'.op = "submit_utterance" ->
                    (IF StateOf(sid).pending = <<>>
                     THEN Ran(sid, StateOf(sid), progress, now,
                              Scored(sid).pending[1].item_id)
                     ELSE <<>>)
                    \o (IF ret'.activity # <<>>
                        THEN Ran(sid, Scored(sid), progress', now,
                                 ret'.activity[1].item_id)
                        ELSE <<>>)
               [] ret'.op = "set_goal" ->
                    <<[session_id |-> sid, kind |-> "set_goal", item_id |-> "",
                       due |-> FALSE, new |-> FALSE]>>
               [] OTHER -> <<>>

\* The history is extended by the Scheduler runs and goal changes of the step
Logged == picks' = picks \o Runs

-----------------------------------------------------------------------------
(* Specifications *)

EmptyTable == [k \in {} |-> 0]

\* The store after construction: SQLiteStore._init creates empty tables
Init ==
    /\ sessions = EmptyTable
    /\ progress = EmptyTable
    /\ notes = EmptyTable
    /\ now = 0
    /\ ret = NoRet
    /\ calls = 0
    /\ picks = <<>>
    /\ threads = NoThreads
    /\ manager = NoStreams
    /\ wire = <<>>

\* A call made directly on the server object, one at a time: no HTTP handler
\* is in flight and nothing is queued or sent
Direct == UNCHANGED <<threads, manager, wire>>

\* Every call and every tick is counted, up to MaxCalls; the history is kept
\* only where a specification observes it.
Counted ==
    calls < MaxCalls /\ calls' = calls + 1 /\ picks' = picks /\ Direct

StartStep == \E u \in Users, p \in Profiles : Counted /\ StartSession(u, p[1], p[2], p[3])
NextActivityStep == \E sid \in Range(SessionIds) : Counted /\ NextActivity(sid)
SubmitStep ==
    \E sid \in Range(SessionIds) : \E text \in UtterancesFor(sid) :
        Counted /\ SubmitUtterance(sid, text)
SetGoalStep == \E sid \in Range(SessionIds), g \in Goals : Counted /\ SetGoal(sid, g)
GetProgressStep == \E u \in Users : Counted /\ GetProgress(u)
SaveNoteStep ==
    \E sid \in Range(SessionIds), n \in NoteTexts : Counted /\ SaveNoteForParent(sid, n)
TickStep == Counted /\ Tick

Next ==
    \/ StartStep
    \/ NextActivityStep
    \/ SubmitStep
    \/ SetGoalStep
    \/ GetProgressStep
    \/ TickStep

\* One learner using the tutoring tools
Spec == Init /\ [][Next]_vars

NextNotes ==
    \/ StartStep
    \/ SaveNoteStep
    \/ TickStep

\* The parent notes, which no other tool reads or writes
SpecNotes == Init /\ [][NextNotes]_vars

\* A longer lesson of one learner: sessions are only started, answered and
\* summarised, so that the attempt log outgrows what get_progress reports.
MaxLessonCalls == 8

LessonCounted ==
    calls < MaxLessonCalls /\ calls' = calls + 1 /\ picks' = picks /\ Direct

LessonProfiles == {p \in Profiles : p[2] # "custom"}

\* In a lesson the learner repeats the phrase or stays silent
LessonUtterances(session_id) ==
    {text \in UtterancesFor(session_id) : text = <<>> \/ ~EndsWith(text, Ellipsis)}

LessonStartStep ==
    \E u \in Users, p \in LessonProfiles : LessonCounted /\ StartSession(u, p[1], p[2], p[3])
LessonSubmitStep ==
    \E sid \in DOMAIN sessions : \E text \in LessonUtterances(sid) :
        LessonCounted /\ SubmitUtterance(sid, text)
LessonProgressStep == \E u \in Users : LessonCounted /\ GetProgress(u)
LessonTickStep == LessonCounted /\ Tick

NextLesson ==
    \/ LessonStartStep
    \/ LessonSubmitStep
    \/ LessonProgressStep
    \/ LessonTickStep

SpecLesson == Init /\ [][NextLesson]_vars

\* A review: one learner starting, fetching, answering and waiting, long
\* enough for records of different items to fall due at different times; the
\* new-item selections are observed.
MaxReviewCalls == 6

ReviewCounted == calls < MaxReviewCalls /\ calls' = calls + 1 /\ Direct

ReviewStartStep ==
    \E u \in Users, p \in LessonProfiles : ReviewCounted /\ StartSession(u, p[1], p[2], p[3]) /\ Observed
ReviewFetchStep == \E sid \in DOMAIN sessions : ReviewCounted /\ NextActivity(sid) /\ Observed
ReviewSubmitStep ==
    \E sid \in DOMAIN sessions : \E text \in LessonUtterances(sid) :
        ReviewCounted /\ SubmitUtterance(sid, text) /\ Observed
ReviewTickStep == ReviewCounted /\ Tick /\ Observed

NextReview ==
    \/ ReviewStartStep
    \/ ReviewFetchStep
    \/ ReviewSubmitStep
    \/ ReviewTickStep

SpecReview == Init /\ [][NextReview]_vars

\* The Mastery Updater on its own: schedule applied again and again to one
\* record.  The record starts fresh, as what k passes in a row leave behind,
\* or as what k passes, each followed by partials until the interval is back
\* at one day, leave behind.
MaxScheduleCalls == 3

PassesToCap == (EaseCap - EaseStart) \div EaseStep

RecordKey == <<"kid-1", "g1">>

\* The records that up to k further passes in a row leave behind, from item
\* on, as long as schedule completes
RECURSIVE PassRun(_, _)
PassRun(item, k) ==
    IF k = 0 \/ schedule_raises(item, "pass", 0) THEN {item}
    ELSE {item} \cup PassRun(schedule(item, "pass", 0), k - 1)

StartRecords ==
    PassRun(SRSItem, PassesToCap) \cup
    {[ease |-> EaseStart + k * EaseStep, interval_days |-> OneDay,
      due_at |-> Timestamp(DaySeconds), streak |-> k] : k \in 1..PassesToCap}

\* The outcomes schedule is called with: the three it knows and one it does not
Outcomes == {"fail", "partial", "pass", "skip"}

InitSchedule ==
    /\ sessions = EmptyTable
    /\ progress \in {(RecordKey :> item) : item \in StartRecords}
    /\ notes = EmptyTable
    /\ now = 0
    /\ ret = NoRet
    /\ calls = 0
    /\ picks = <<>>
    /\ threads = NoThreads
    /\ manager = NoStreams
    /\ wire = <<>>

ScheduleCounted ==
    calls < MaxScheduleCalls /\ calls' = calls + 1 /\ picks' = picks /\ Direct

\* item.schedule(outcome, now): the record is updated in place, as far as the
\* call got when it raises.  A call that raised ends its caller
\* (submit_utterance, line 262), and the record object with it.
Schedule(outcome) ==
    /\ ret.err = ""
    /\ progress' = [progress EXCEPT ![RecordKey] = schedule(@, outcome, now)]
    /\ ret' = [NoRet EXCEPT !.op = "schedule", !.user_id = RecordKey[1],
                            !.args = <<progress[RecordKey], outcome>>,
                            !.err = IF schedule_raises(progress[RecordKey], outcome, now)
                                    THEN "overflow" ELSE ""]
    /\ UNCHANGED <<sessions, notes, now>>

ScheduleStep == \E outcome \in Outcomes : ScheduleCounted /\ Schedule(outcome)
ScheduleTickStep == ScheduleCounted /\ Tick

NextSchedule ==
    \/ ScheduleStep
    \/ ScheduleTickStep

SpecSchedule == InitSchedule /\ [][NextSchedule]_vars

\* The Evaluator on its own and under submit_utterance: phrases of every kind
\* (exact, other case, other order, partly right, wrong, trailing off, blank,
\* empty) are scored against the catalog's target phrases.
MaxSpeechCalls == 3

Phrases ==
    { <<>>,
      <<"H","i">>,
      <<"h","i">>,
      <<"H","I","!">>,
      <<"H","i",".",".",".">>,
      <<"H","i"," ","d","a","y">>,
      <<"G","o","o","d"," ","d","a","y">>,
      <<"g","o","o","d"," "," ","d","a","y">>,
      <<"d","a","y"," ","G","o","o","d">>,
      <<"G","o","o","d">>,
      <<"B","y","e","!">>,
      <<"1"," ","2">>,
      <<"R","e","d">>,
      <<"G","o"," ","g","o"," ","g","o"," ","g","o",".",".",".">>,
      <<"g","o">>,
      <<" "," "," ">>,
      <<".",".",".">> }

Targets == {CurriculumItems[j].target : j \in DOMAIN CurriculumItems}

SpeechCounted ==
    calls < MaxSpeechCalls /\ calls' = calls + 1 /\ picks' = picks /\ Direct

\* evaluate_utterance(utterance, target_phrase), its total and the outcome
\* submit_utterance derives from it (server.py, lines 240-243)
Evaluate(utterance, target_phrase) ==
    LET evaluation == evaluate_utterance(utterance, target_phrase)
    IN  /\ ret' = [NoRet EXCEPT
                      !.op = "evaluate_utterance",
                      !.args = <<utterance, target_phrase>>,
                      !.summary = <<[meaning |-> evaluation.meaning,
                                     form |-> evaluation.form,
                                     pronunciation |-> evaluation.pronunciation,
                                     fluency |-> evaluation.fluency,
                                     total |-> total(evaluation),
                                     outcome |-> score_to_outcome(total(evaluation))]>>]
        /\ UNCHANGED <<sessions, progress, notes, now>>

EvaluateStep ==
    \E utterance \in Phrases, target \in Targets :
        SpeechCounted /\ Evaluate(utterance, target)
SpeechStartStep ==
    \E u \in Users, p \in LessonProfiles : SpeechCounted /\ StartSession(u, p[1], p[2], p[3])
SpeechSubmitStep ==
    \E sid \in DOMAIN sessions : \E text \in Phrases :
        SpeechCounted /\ SubmitUtterance(sid, text)

NextSpeech ==
    \/ EvaluateStep
    \/ SpeechStartStep
    \/ SpeechSubmitStep

SpecSpeech == Init /\ [][NextSpeech]_vars

\* The server behind its threading HTTP server: up to two requests are in
\* flight together and their store accesses interleave in every order.
MaxThreadCalls == 3

ThreadCounted ==
    calls < MaxThreadCalls /\ calls' = calls + 1 /\ picks' = picks
    /\ UNCHANGED <<manager, wire>>

\* A step of a thread in flight is no new call
Running == UNCHANGED <<calls, picks, manager, wire>>

\* What a learner says without waiting for the prompt
ThreadUtterances == { <<"H","i">>, <<>> }

StartRequest ==
    \E t \in Threads, u \in Users, p \in Profiles :
        ThreadCounted /\ Request(t, [NoRet EXCEPT !.op = "start_session", !.user_id = u,
                                                  !.args = <<p[1], p[2], p[3]>>])
FetchRequest ==
    \E t \in Threads, sid \in Range(SessionIds) :
        ThreadCounted /\ Request(t, [NoRet EXCEPT !.op = "next_activity",
                                                  !.session_id = sid])
SubmitRequest ==
    \E t \in Threads, sid \in Range(SessionIds), text \in ThreadUtterances :
        ThreadCounted /\ Request(t, [NoRet EXCEPT !.op = "submit_utterance",
                                                  !.session_id = sid, !.args = <<text>>])
SetGoalRequest ==
    \E t \in Threads, sid \in Range(SessionIds), g \in Goals :
        ThreadCounted /\ Request(t, [NoRet EXCEPT !.op = "set_goal",
                                                  !.session_id = sid, !.args = <<g>>])
GetLatestStep == \E t \in Threads : Running /\ GetLatest(t)
UpsertStep == \E t \in Threads : Running /\ Upsert(t)
GetSessionStep == \E t \in Threads : Running /\ GetSession(t)
PlanStep == \E t \in Threads : Running /\ Plan(t)
PersistStep == \E t \in Threads : Running /\ Persist(t)
LoadSrsStep == \E t \in Threads : Running /\ LoadSrs(t)
PersistSrsStep == \E t \in Threads : Running /\ PersistSrs(t)
ThreadTickStep == ThreadCounted /\ Tick /\ threads' = threads

NextThreads ==
    \/ StartRequest
    \/ FetchRequest
    \/ SubmitRequest
    \/ SetGoalRequest
    \/ GetLatestStep
    \/ UpsertStep
    \/ GetSessionStep
    \/ PlanStep
    \/ PersistStep
    \/ LoadSrsStep
    \/ PersistSrsStep
    \/ ThreadTickStep

SpecThreads == Init /\ [][NextThreads]_vars


\* The HTTP server: clients open streams, post tool calls and close streams,
\* and the handlers of up to three connections run interleaved.  Tool calls
\* run as a whole inside their handler.
MaxHttpCalls == 3

InitHttp ==
    /\ sessions = EmptyTable
    /\ progress = EmptyTable
    /\ notes = EmptyTable
    /\ now = 0
    /\ ret = NoRet
    /\ calls = 0
    /\ picks = <<>>
    /\ threads = [c \in Connections |-> NoConnection]
    /\ manager = NoStreams
    /\ wire = <<>>

\* A request arriving is counted; a step of a handler is not
HttpCounted == calls < MaxHttpCalls /\ calls' = calls + 1 /\ picks' = picks
Handling == UNCHANGED <<calls, picks>>

GetStep == \E c \in Connections, s \in StreamIds : HttpCounted /\ Get(c, s)
PostStep == \E c \in Connections, r \in Posts : HttpCounted /\ Post(c, r)
RegisterStep == \E c \in Connections : Handling /\ Register(c)
DeliverStep == \E c \in Connections : Handling /\ Deliver(c)
HeartbeatStep == \E c \in Connections : Handling /\ Heartbeat(c)
DiscardStep == \E c \in Connections : Handling /\ Discard(c)
ClientClosesStep == \E c \in Connections : Handling /\ ClientCloses(c)
InvokeStep == \E c \in Connections : Handling /\ Invoke(c)
LookupStep == \E c \in Connections : Handling /\ Lookup(c)
PutMessageStep == \E c \in Connections : Handling /\ PutMessage(c)
AcceptStep == \E c \in Connections : Handling /\ Accept(c)

NextHttp ==
    \/ GetStep
    \/ PostStep
    \/ RegisterStep
    \/ DeliverStep
    \/ HeartbeatStep
    \/ DiscardStep
    \/ ClientClosesStep
    \/ InvokeStep
    \/ LookupStep
    \/ PutMessageStep
    \/ AcceptStep

SpecHttp == InitHttp /\ [][NextHttp]_vars

\* ThreadingHTTPServer runs every handler in a thread of its own and the
\* operating system schedules every thread that can run: a handler that can
\* take its next step takes it.  Nothing makes a client send a request or
\* close a stream.
HttpFairness ==
    \A c \in Connections :
        /\ WF_vars(Handling /\ Register(c))
        /\ WF_vars(Handling /\ Deliver(c))
        /\ WF_vars(Handling /\ Heartbeat(c))
        /\ WF_vars(Handling /\ Discard(c))
        /\ WF_vars(Handling /\ Invoke(c))
        /\ WF_vars(Handling /\ Lookup(c))
        /\ WF_vars(Handling /\ PutMessage(c))
        /\ WF_vars(Handling /\ Accept(c))

\* The streams: clients open and close streams and post tool calls to be
\* answered on a stream; the handlers run interleaved and each of them gets
\* to run.
MaxStreamCalls == 3

\* The tool calls POSTed with a stream id that succeed
StreamPosts ==
    {r \in Posts : /\ r.path = "/invoke" /\ r.stream_id # ""
                   /\ r.tool = "start_session" /\ r.arguments[3] = "greetings"}

StreamCounted == calls < MaxStreamCalls /\ calls' = calls + 1 /\ picks' = picks

StreamGetStep == \E c \in Connections, s \in StreamIds : StreamCounted /\ Get(c, s)
StreamPostStep == \E c \in Connections, r \in StreamPosts : StreamCounted /\ Post(c, r)

NextStream ==
    \/ StreamGetStep
    \/ StreamPostStep
    \/ RegisterStep
    \/ DeliverStep
    \/ HeartbeatStep
    \/ DiscardStep
    \/ ClientClosesStep
    \/ InvokeStep
    \/ LookupStep
    \/ PutMessageStep
    \/ AcceptStep

SpecStream == InitHttp /\ [][NextStream]_vars /\ HttpFairness

\* The throttle: one learner starting, fetching, answering and changing the
\* goal; every run of the Scheduler and every change of goal is logged.
MaxThrottleCalls == 6

ThrottleCounted == calls < MaxThrottleCalls /\ calls' = calls + 1 /\ Direct

ThrottleStartStep ==
    \E u \in Users, p \in LessonProfiles :
        ThrottleCounted /\ StartSession(u, p[1], p[2], p[3]) /\ Logged
ThrottleFetchStep ==
    \E sid \in DOMAIN sessions : ThrottleCounted /\ NextActivity(sid) /\ Logged
ThrottleSubmitStep ==
    \E sid \in DOMAIN sessions : \E text \in LessonUtterances(sid) :
        ThrottleCounted /\ SubmitUtterance(sid, text) /\ Logged
ThrottleSetGoalStep ==
    \E sid \in DOMAIN sessions, g \in Goals : ThrottleCounted /\ SetGoal(sid, g) /\ Logged

NextThrottle ==
    \/ ThrottleStartStep
    \/ ThrottleFetchStep
    \/ ThrottleSubmitStep
    \/ ThrottleSetGoalStep

SpecThrottle == Init /\ [][NextThrottle]_vars

\* Overlapping calls: a learner starts and answers through two handler
\* threads; the arrival and the return of every call are kept in the history.
MaxOverlapCalls == 3

\* The arrival or the return of a call in the step, as a history entry
Events ==
    IF \E t \in Threads : threads'[t].pc # threads[t].pc
                           /\ "done" \in {threads[t].pc, threads'[t].pc}
    THEN LET t == CHOOSE o \in Threads :
                     /\ threads'[o].pc # threads[o].pc
                     /\ "done" \in {threads[o].pc, threads'[o].pc}
             call == threads'[t].call
         IN  <<[kind |-> IF threads[t].pc = "done" THEN "request" ELSE "return",
                thread |-> t, op |-> call.op, session_id |-> call.session_id,
                user_id |-> call.user_id, err |-> call.err,
                xp |-> IF call.award = <<>> THEN 0 ELSE call.award[1].xp]>>
    ELSE <<>>

Recorded == picks' = picks \o Events /\ UNCHANGED <<manager, wire>>

OverlapCounted == calls < MaxOverlapCalls /\ calls' = calls + 1

\* A step of a thread in flight is no new call
Overlapping == calls' = calls

\* The learner keeps to one track
OverlapProfiles == {p \in Profiles : p[2] = "greetings"}

OverlapStart ==
    \E t \in Threads, u \in Users, p \in OverlapProfiles :
        OverlapCounted /\ Request(t, [NoRet EXCEPT !.op = "start_session", !.user_id = u,
                                                   !.args = <<p[1], p[2], p[3]>>])
                       /\ Recorded
OverlapSubmit ==
    \E t \in Threads, sid \in Range(SessionIds), text \in ThreadUtterances :
        OverlapCounted /\ Request(t, [NoRet EXCEPT !.op = "submit_utterance",
                                                   !.session_id = sid, !.args = <<text>>])
                       /\ Recorded
OverlapGetLatest == \E t \in Threads : Overlapping /\ GetLatest(t) /\ Recorded
OverlapUpsert == \E t \in Threads : Overlapping /\ Upsert(t) /\ Recorded
OverlapGetSession == \E t \in Threads : Overlapping /\ GetSession(t) /\ Recorded
OverlapPlan == \E t \in Threads : Overlapping /\ Plan(t) /\ Recorded
OverlapPersist == \E t \in Threads : Overlapping /\ Persist(t) /\ Recorded
OverlapLoadSrs == \E t \in Threads : Overlapping /\ LoadSrs(t) /\ Recorded
OverlapPersistSrs == \E t \in Threads : Overlapping /\ PersistSrs(t) /\ Recorded

NextOverlap ==
    \/ OverlapStart
    \/ OverlapSubmit
    \/ OverlapGetLatest
    \/ OverlapUpsert
    \/ OverlapGetSession
    \/ OverlapPlan
    \/ OverlapPersist
    \/ OverlapLoadSrs
    \/ OverlapPersistSrs

SpecOverlap == Init /\ [][NextOverlap]_vars

-----------------------------------------------------------------------------
(* Properties *)

\* C1: a submission that fails against the pending activity P leaves P pending
\* with one more attempt, leaves the new-item cursor and the new-since-review
\* counter alone, and returns a review card for P's item and target and no
\* next activity.
FailKeepsPending ==
    [][\A sid \in DOMAIN sessions :
         ( /\ IsCall("submit_utterance")
           /\ ret'.session_id = sid
           /\ StateOf(sid).pending # <<>>
           /\ OutcomeOf(ret'.args[1], StateOf(sid).pending[1].target) = "fail" )
         => LET P == StateOf(sid).pending[1]
            IN  /\ ret'.err = ""
                /\ After(sid).pending = <<[P EXCEPT !.attempts = P.attempts + 1]>>
                /\ After(sid).new_cursor = StateOf(sid).new_cursor
                /\ After(sid).new_since_review = StateOf(sid).new_since_review
                /\ ret'.review_card # <<>>
                /\ ret'.review_card[1].item_id = P.item_id
                /\ ret'.review_card[1].target_phrase = P.target
                /\ ret'.activity = <<>>]_vars

\* C1 witness: a second failed submission in a row on the same pending activity
FailKeepsPendingSeen ==
    /\ ret.op = "submit_utterance" /\ ret.err = "" /\ ret.review_card # <<>>
    /\ ret.session_id \in DOMAIN sessions
    /\ StateOf(ret.session_id).pending # <<>>
    /\ StateOf(ret.session_id).pending[1].attempts = 2

\* C2: a submission scored partial or pass that returns carries a next activity
\* and no review card; the pending activity afterwards is that activity with
\* attempt counter 0, and the Scheduler ran once (the cursor moved by at most 1).
PassAdvances ==
    [][\A sid \in DOMAIN sessions :
         ( /\ IsCall("submit_utterance")
           /\ ret'.session_id = sid
           /\ ret'.err = ""
           /\ OutcomeOf(ret'.args[1], Scored(sid).pending[1].target)
                 \in {"partial", "pass"} )
         => /\ ret'.activity # <<>>
            /\ ret'.review_card = <<>>
            /\ Len(After(sid).pending) = 1
            /\ After(sid).pending[1].item_id = ret'.activity[1].item_id
            /\ After(sid).pending[1].target = ret'.activity[1].target_phrase
            /\ After(sid).pending[1].attempts = 0
            /\ After(sid).new_cursor \in
                  {Scored(sid).new_cursor, Scored(sid).new_cursor + 1}]_vars

\* C2 witness: a partial submission that advanced to another item
PassAdvancesSeen ==
    /\ ret.op = "submit_utterance" /\ ret.err = "" /\ ret.mastery_delta = 0
    /\ ret.activity # <<>>
    /\ \E i \in DOMAIN StateOf(ret.session_id).attempts :
          /\ StateOf(ret.session_id).attempts[i].outcome = "partial"
          /\ StateOf(ret.session_id).attempts[i].item_id # ret.activity[1].item_id

\* C3 as stated: a returning submission of exactly the pending target phrase
\* is a pass: XP + 5, mastery delta +2, a next activity and no review card.
ExactMatchPasses ==
    [][\A sid \in DOMAIN sessions :
         ( /\ IsCall("submit_utterance")
           /\ ret'.session_id = sid
           /\ ret'.err = ""
           /\ ret'.args[1] = Scored(sid).pending[1].target )
         => /\ After(sid).xp = StateOf(sid).xp + 5
            /\ ret'.mastery_delta = 2
            /\ ret'.activity # <<>>
            /\ ret'.review_card = <<>>]_vars

\* A target phrase an exact repetition of which totals 5 or more: it has a
\* word token, and it does not both end in "..." and have fewer distinct
\* tokens than half its token count
Passable(target) ==
    LET tokens == tokenize(target)
    IN  /\ tokens # <<>>
        /\ ~( /\ EndsWith(Strip(target), Ellipsis)
              /\ Cardinality(Range(tokens)) < Max(1, Len(tokens) \div 2) )

\* C3 amended: the same, for a target phrase that is Passable.
ExactMatchOfWordsPasses ==
    [][\A sid \in DOMAIN sessions :
         ( /\ IsCall("submit_utterance")
           /\ ret'.session_id = sid
           /\ ret'.err = ""
           /\ ret'.args[1] = Scored(sid).pending[1].target
           /\ Passable(Scored(sid).pending[1].target) )
         => /\ After(sid).xp = StateOf(sid).xp + 5
            /\ ret'.mastery_delta = 2
            /\ ret'.activity # <<>>
            /\ ret'.review_card = <<>>]_vars

\* C3 witness: the target phrase of a catalog item was submitted and passed
ExactMatchOfWordsPassesSeen ==
    /\ ret.op = "submit_utterance" /\ ret.err = "" /\ ret.mastery_delta = 2
    /\ ret.activity # <<>>
    /\ LET last == StateOf(ret.session_id).attempts[Len(StateOf(ret.session_id).attempts)]
       IN  \E i \in DOMAIN CurriculumItems :
              /\ CurriculumItems[i].item_id = last.item_id
              /\ CurriculumItems[i].target = ret.args[1]

\* C4: a submission adds exactly one badge when the XP total crosses a
\* multiple of 20 (new total div 20 > old total div 20) and none otherwise.
BadgePerThreshold ==
    [][\A sid \in DOMAIN sessions :
         (IsCall("submit_utterance") /\ ret'.session_id = sid)
         => After(sid).stickers =
               StateOf(sid).stickers
                 + (IF After(sid).xp \div 20 > StateOf(sid).xp \div 20 THEN 1 ELSE 0)]_vars

\* C4 witness: the submission that took XP to 20 granted the first badge
BadgePerThresholdSeen ==
    /\ ret.op = "submit_utterance" /\ ret.err = "" /\ ret.award # <<>>
    /\ ret.award[1].stickers = 1
    /\ StateOf(ret.session_id).xp = 20
    /\ StateOf(ret.session_id).stickers = 1

\* C5: a start that returns, for a learner without a session, has created one
\* session with XP 0, no badges and an empty attempt log, and returns a
\* pending activity whose item is in itemsFor(track, ageBand) and a snapshot
\* with XP 0.
StartCreates ==
    [][( /\ IsCall("start_session")
         /\ ret'.err = ""
         /\ get_latest_session_for_user(sessions, ret'.user_id) = {} )
       => \E sid \in DOMAIN sessions' \ DOMAIN sessions :
            /\ DOMAIN sessions' = DOMAIN sessions \cup {sid}
            /\ sessions'[sid].user_id = ret'.user_id
            /\ After(sid).xp = 0
            /\ After(sid).stickers = 0
            /\ After(sid).attempts = <<>>
            /\ ret'.session_id = sid
            /\ ret'.activity # <<>>
            /\ ret'.activity[1].item_id \in ItemsFor(ret'.args[2], ret'.args[1])
            /\ Len(After(sid).pending) = 1
            /\ After(sid).pending[1].item_id = ret'.activity[1].item_id
            /\ After(sid).pending[1].attempts = 0
            /\ ret'.snapshot # <<>>
            /\ ret'.snapshot[1].session_id = sid
            /\ ret'.snapshot[1].xp = 0]_vars

\* C5 witness: the first call started a session for the older age band
StartCreatesSeen ==
    /\ calls = 1 /\ ret.op = "start_session" /\ ret.err = ""
    /\ ret.args[1] = "9-10" /\ ret.activity # <<>>

\* C6: start for a learner with a session resumes it: same session id, the new
\* age band, track and locale, XP, badges and attempt log as they were; a
\* pending activity is returned as it is, cursor and throttle untouched, and
\* the Scheduler runs only when nothing is pending.
StartResumes ==
    [][\A sid \in DOMAIN sessions :
         ( /\ IsCall("start_session")
           /\ sid \in get_latest_session_for_user(sessions, ret'.user_id) )
         => /\ DOMAIN sessions' = DOMAIN sessions
            /\ After(sid).xp = StateOf(sid).xp
            /\ After(sid).stickers = StateOf(sid).stickers
            /\ After(sid).attempts = StateOf(sid).attempts
            /\ ret'.err = "" =>
                 /\ ret'.session_id = sid
                 /\ ret'.activity # <<>>
                 /\ After(sid).age_band = ret'.args[1]
                 /\ After(sid).goal = ret'.args[2]
                 /\ After(sid).locale = ret'.args[3]
            /\ StateOf(sid).pending # <<>> =>
                 /\ ret'.err = ""
                 /\ After(sid).pending = StateOf(sid).pending
                 /\ After(sid).new_cursor = StateOf(sid).new_cursor
                 /\ After(sid).new_since_review = StateOf(sid).new_since_review
                 /\ ret'.activity[1].item_id = StateOf(sid).pending[1].item_id
                 /\ ret'.activity[1].target_phrase = StateOf(sid).pending[1].target
            /\ (StateOf(sid).pending = <<>> /\ ret'.err = "") =>
                 /\ Len(After(sid).pending) = 1
                 /\ After(sid).pending[1].item_id = ret'.activity[1].item_id]_vars

\* C6 witness: a session with XP and a pending activity was resumed under
\* another track
StartResumesSeen ==
    /\ ret.op = "start_session" /\ ret.err = ""
    /\ ret.session_id \in DOMAIN sessions
    /\ StateOf(ret.session_id).xp > 0
    /\ StateOf(ret.session_id).pending # <<>>
    /\ StateOf(ret.session_id).pending[1].item_id
          \notin ItemsFor(ret.args[2], ret.args[1])

\* C7: a fetchNext that returns stores the Scheduler's new selection as the
\* pending activity (attempt counter 0) in place of the old one, and changes
\* neither XP, badges nor the attempt log.
FetchNextReplans ==
    [][\A sid \in DOMAIN sessions :
         ( /\ IsCall("next_activity")
           /\ ret'.session_id = sid
           /\ ret'.err = "" )
         => LET planned == plan_next_activity(StateOf(sid), progress, now)
            IN  /\ ret'.activity # <<>>
                /\ Len(After(sid).pending) = 1
                /\ After(sid).pending[1].item_id = ret'.activity[1].item_id
                /\ After(sid).pending[1].attempts = 0
                /\ After(sid).pending = planned.state.pending
                /\ After(sid).new_cursor = planned.state.new_cursor
                /\ After(sid).new_since_review = planned.state.new_since_review
                /\ After(sid).xp = StateOf(sid).xp
                /\ After(sid).stickers = StateOf(sid).stickers
                /\ After(sid).attempts = StateOf(sid).attempts
                /\ progress' = progress]_vars

\* C7 witness: fetchNext replaced a pending activity that had been attempted
FetchNextReplansSeen ==
    /\ ret.op = "next_activity" /\ ret.err = ""
    /\ StateOf(ret.session_id).attempts # <<>>
    /\ StateOf(ret.session_id).attempts[Len(StateOf(ret.session_id).attempts)].outcome
          = "fail"
    /\ StateOf(ret.session_id).pending[1].item_id
          # StateOf(ret.session_id).attempts[Len(StateOf(ret.session_id).attempts)].item_id

\* C8: setGoal sets the track, resets cursor and new-since-review to 0, clears
\* the pending activity and keeps XP, badges and attempt log; the fetchNext
\* that follows it selects an item of the new track's candidate set.
SetGoalResets ==
    [][\A sid \in DOMAIN sessions :
         /\ ( IsCall("set_goal") /\ ret'.session_id = sid )
            => /\ ret'.err = ""
               /\ After(sid).goal = ret'.args[1]
               /\ After(sid).new_cursor = 0
               /\ After(sid).new_since_review = 0
               /\ After(sid).pending = <<>>
               /\ After(sid).xp = StateOf(sid).xp
               /\ After(sid).stickers = StateOf(sid).stickers
               /\ After(sid).attempts = StateOf(sid).attempts
         /\ ( /\ ret.op = "set_goal" /\ ret.err = "" /\ ret.session_id = sid
              /\ IsCall("next_activity") /\ ret'.session_id = sid /\ ret'.err = "" )
            => /\ ret'.activity[1].item_id
                     \in ItemsFor(ret.args[1], StateOf(sid).age_band)
               /\ After(sid).pending[1].item_id = ret'.activity[1].item_id]_vars

\* C8 witness: after a start under one track and setGoal to another, fetchNext
\* made an item of the other track pending
SetGoalResetsSeen ==
    /\ ret.op = "next_activity" /\ ret.err = ""
    /\ sessions[ret.session_id].goal # StateOf(ret.session_id).goal
    /\ StateOf(ret.session_id).new_cursor = 1
    /\ StateOf(ret.session_id).pending[1].item_id
          \in ItemsFor(StateOf(ret.session_id).goal, StateOf(ret.session_id).age_band)
    /\ StateOf(ret.session_id).pending[1].item_id
          \notin ItemsFor(sessions[ret.session_id].goal, StateOf(ret.session_id).age_band)

\* C9: fetchNext, submitResponse and setGoal with a session id the store does
\* not have fail with NotFound and leave sessions and scheduling records as
\* they were.
UnknownSessionFails ==
    [][( /\ \E op \in {"next_activity", "submit_utterance", "set_goal"} : IsCall(op)
         /\ ret'.session_id \notin DOMAIN sessions )
       => /\ ret'.err = "not_found"
          /\ ret'.activity = <<>> /\ ret'.review_card = <<>> /\ ret'.snapshot = <<>>
          /\ sessions' = sessions
          /\ progress' = progress
          /\ notes' = notes]_vars

\* C9 witness: submitResponse on an unknown id, with a session and a
\* scheduling record in the store
UnknownSessionFailsSeen ==
    /\ ret.op = "submit_utterance" /\ ret.err = "not_found"
    /\ ret.session_id \notin DOMAIN sessions
    /\ DOMAIN sessions # {} /\ DOMAIN progress # {}

\* C10 as stated: saveParentNote with a session id the store does not have
\* fails with NotFound and stores no note.
NoteNeedsSession ==
    [][( /\ IsCall("save_note_for_parent")
         /\ ret'.session_id \notin DOMAIN sessions )
       => /\ ret'.err = "not_found"
          /\ notes' = notes]_vars

\* C11: getProgress changes no session, scheduling record or note, and
\* returns the XP and badge count of the learner's most recent session, the
\* item ids of the last 5 attempt-log entries in log order, and the number of
\* the learner's scheduling records, of whatever track, due at or before now.
ProgressIsReadOnlySummary ==
    [][IsCall("get_progress")
       => /\ sessions' = sessions
          /\ progress' = progress
          /\ notes' = notes
          /\ ret'.err = ""
          /\ Len(ret'.summary) = 1
          /\ ret'.summary[1].due_reviews =
                Cardinality({k \in DOMAIN progress :
                                k[1] = ret'.user_id
                                /\ DateLeq(progress[k].due_at, Timestamp(now))})
          /\ \A sid \in DOMAIN sessions :
                ( /\ sessions[sid].user_id = ret'.user_id
                  /\ \A other \in DOMAIN sessions :
                        sessions[other].user_id = ret'.user_id
                        => sessions[other].updated_at <= sessions[sid].updated_at )
                => LET log    == StateOf(sid).attempts
                       recent == ret'.summary[1].recent_items
                       skip   == IF Len(log) > 5 THEN Len(log) - 5 ELSE 0
                   IN  /\ ret'.summary[1].xp = StateOf(sid).xp
                       /\ ret'.summary[1].stickers = StateOf(sid).stickers
                       /\ Len(recent) = Len(log) - skip
                       /\ \A i \in DOMAIN recent : recent[i] = log[skip + i].item_id]_vars

\* C11 witness: a summary of a session with six attempts, whose five reported
\* items leave out the first attempt, and with a record due
ProgressIsReadOnlySummarySeen ==
    /\ ret.op = "get_progress"
    /\ ret.summary # <<>>
    /\ Len(ret.summary[1].recent_items) = 5
    /\ ret.summary[1].due_reviews >= 1
    /\ \E sid \in DOMAIN sessions :
          /\ Len(StateOf(sid).attempts) = 6
          /\ StateOf(sid).attempts[1].item_id # ret.summary[1].recent_items[1]

\* The due candidate with the earliest due time, the first in the catalog
\* among equals
EarliestDue(state, tbl, t) ==
    CHOOSE j \in DueIdx(state, tbl, t) :
        \A k \in DueIdx(state, tbl, t) :
            LET dj == tbl[<<state.user_id, CurriculumItems[j].item_id>>].due_at
                dk == tbl[<<state.user_id, CurriculumItems[k].item_id>>].due_at
            IN  ~DateLeq(dk, dj) \/ (dj = dk /\ j <= k)

\* A run of the Scheduler on state and tbl at time t that left the state
\* after and selected item_id obeyed the review rule
ReviewFirst(state, tbl, t, after, item_id) ==
    (state.new_since_review >= 2 /\ DueIdx(state, tbl, t) # {})
    => /\ item_id = CurriculumItems[EarliestDue(state, tbl, t)].item_id
       /\ after.new_since_review = 0
       /\ after.new_cursor = state.new_cursor

\* C12: whenever the Scheduler runs (in fetchNext, in a start that finds no
\* pending activity, or after a partial or pass submission) with
\* new-since-review at 2 or more and a candidate due, it selects the due
\* candidate with the earliest due time, the first in catalog order among
\* equals, and resets new-since-review to 0, unseen items or not.
ThrottledReviewComesFirst ==
    [][\A sid \in DOMAIN sessions :
         /\ ( IsCall("next_activity") /\ ret'.session_id = sid /\ ret'.err = "" )
            => ReviewFirst(StateOf(sid), progress, now, After(sid),
                           ret'.activity[1].item_id)
         /\ ( /\ IsCall("start_session") /\ ret'.session_id = sid /\ ret'.err = ""
              /\ StateOf(sid).pending = <<>> )
            => ReviewFirst([StateOf(sid) EXCEPT !.age_band = ret'.args[1],
                                                !.goal = ret'.args[2]],
                           progress, now, After(sid), ret'.activity[1].item_id)
         /\ ( /\ IsCall("submit_utterance") /\ ret'.session_id = sid /\ ret'.err = ""
              /\ ret'.activity # <<>> )
            => ReviewFirst(Scored(sid), progress', now, After(sid),
                           ret'.activity[1].item_id)]_vars

\* C12 witness: with two records due, the later one in the catalog due
\* earlier, and an unseen candidate left, fetchNext selected the earlier-due
\* item and reset the counter
ThrottledReviewComesFirstSeen ==
    /\ ret.op = "next_activity" /\ ret.err = ""
    /\ StateOf(ret.session_id).new_since_review = 0
    /\ UnseenIdx(StateOf(ret.session_id), progress) # {}
    /\ \E j, k \in DueIdx(StateOf(ret.session_id), progress, now) :
          /\ j < k
          /\ ~DateLeq(progress[<<"kid-1", CurriculumItems[j].item_id>>].due_at,
                      progress[<<"kid-1", CurriculumItems[k].item_id>>].due_at)
          /\ ret.activity[1].item_id = CurriculumItems[k].item_id

\* The new-item selections of one session, in order
PicksOf(session_id) ==
    SelectSeq(picks, LAMBDA e : e.session_id = session_id)

\* C13 as stated: the new-item selections of a session are round-robin fair.
\* Of two consecutive ones the second is another item (where more than one
\* candidate was unseen), and an item is selected again only when every
\* candidate unseen at that moment has been selected before.
RoundRobinFair ==
    \A sid \in DOMAIN sessions :
        LET seq == PicksOf(sid)
        IN  /\ \A i \in 1..(Len(seq) - 1) :
                  Cardinality(seq[i + 1].unseen) > 1
                  => seq[i + 1].item_id # seq[i].item_id
            /\ \A j \in DOMAIN seq :
                  (\E i \in 1..(j - 1) : seq[i].item_id = seq[j].item_id)
                  => \A u \in seq[j].unseen :
                        \E k \in 1..(j - 1) : seq[k].item_id = u

\* C14: schedule with outcome fail leaves ease 1.3, interval 0, due = now and
\* streak 0, whatever the record was.
FailResetsRecord ==
    [][(IsCall("schedule") /\ ret'.args[2] = "fail")
       => /\ progress'[RecordKey].ease = 130
          /\ progress'[RecordKey].interval_days = NoInterval
          /\ progress'[RecordKey].due_at = Timestamp(now)
          /\ progress'[RecordKey].streak = 0]_vars

\* C14 witness: a record at the ease cap with a streak and a due time in the
\* future was reset by a fail, on a later day
FailResetsRecordSeen ==
    /\ ret.op = "schedule" /\ ret.args[2] = "fail"
    /\ ret.args[1].ease = 250 /\ ret.args[1].streak > 0
    /\ ret.args[1].interval_days # NoInterval
    /\ ~DateLeq(ret.args[1].due_at, Timestamp(now))
    /\ now > 0
    /\ progress[RecordKey].ease = 130 /\ progress[RecordKey].due_at = Timestamp(now)

\* C15: schedule with outcome pass never lowers ease: it adds 0.05, up to the
\* cap of 2.5, which ease never exceeds.
PassRaisesEase ==
    [][(IsCall("schedule") /\ ret'.args[2] = "pass")
       => /\ progress'[RecordKey].ease >= progress[RecordKey].ease
          /\ progress'[RecordKey].ease <= 250
          /\ \/ progress'[RecordKey].ease = progress[RecordKey].ease + 5
             \/ /\ progress'[RecordKey].ease = 250
                /\ progress[RecordKey].ease + 5 > 250]_vars

\* C15 witness: a third pass in a row, the first of which reached the cap
PassRaisesEaseSeen ==
    /\ ret.op = "schedule" /\ ret.args[2] = "pass" /\ calls = 3
    /\ ret.args[1].ease = 250
    /\ ret.args[1].streak = PassesToCap + 1
    /\ progress[RecordKey].ease = 250
    /\ progress[RecordKey].streak = PassesToCap + 2

\* C16 as stated: schedule with an outcome other than fail, partial and pass
\* fails with an InvalidOutcome error and leaves the record as it was.
UnknownOutcomeFails ==
    [][(IsCall("schedule") /\ ret'.args[2] \notin {"fail", "partial", "pass"})
       => /\ ret'.err = "invalid_outcome"
          /\ progress' = progress]_vars

\* C17: every scheduling record has interval >= 0, 1.3 <= ease <= 2.5 and
\* streak >= 0, after any sequence of schedule calls with the three outcomes.
RecordInRange ==
    \A key \in DOMAIN progress :
        /\ IntervalLeq(NoInterval, progress[key].interval_days)
        /\ progress[key].interval_days.micro \in 0..(IntervalUnit - 1)
        /\ progress[key].ease >= 130
        /\ progress[key].ease <= 250
        /\ progress[key].streak >= 0

\* C17 witness: a record that passed at the cap, then was partial, then passed
RecordInRangeSeen ==
    /\ calls = 3 /\ ret.op = "schedule" /\ ret.args[2] = "pass"
    /\ ret.args[1].ease = 250
    /\ ret.args[1].interval_days = Days(2, 0)
    /\ progress[RecordKey].interval_days = Days(5, 0)
    /\ progress[RecordKey].streak = PassesToCap + 2

\* The outcome of a total, by the thresholds of the contract
OutcomeFor(score) ==
    CASE score <= 2 -> "fail"
      [] score \in {3, 4} -> "partial"
      [] score >= 5 -> "pass"

\* C18: the Evaluator's total is the sum of its four scores and lies in 0..7;
\* the outcome is fail for a total <= 2, partial for 3 or 4 and pass for >= 5;
\* and what submitResponse does (mastery delta, XP, review card or next
\* activity) is what this mapping gives for the total it logs.
TotalDecidesOutcome ==
    [][/\ IsCall("evaluate_utterance")
          => LET e == ret'.summary[1]
             IN  /\ e.total = e.meaning + e.form + e.pronunciation + e.fluency
                 /\ e.total \in 0..7
                 /\ e.outcome = OutcomeFor(e.total)
       /\ \A sid \in DOMAIN sessions :
            (IsCall("submit_utterance") /\ ret'.session_id = sid /\ ret'.err = "")
            => LET log   == After(sid).attempts
                   entry == log[Len(log)]
                   e     == evaluate_utterance(ret'.args[1], Scored(sid).pending[1].target)
               IN  /\ Len(log) = Len(StateOf(sid).attempts) + 1
                   /\ entry.score = e.meaning + e.form + e.pronunciation + e.fluency
                   /\ entry.score \in 0..7
                   /\ entry.outcome = OutcomeFor(entry.score)
                   /\ entry.outcome = "fail"
                        => /\ ret'.mastery_delta = -1
                           /\ After(sid).xp = StateOf(sid).xp
                           /\ ret'.review_card # <<>> /\ ret'.activity = <<>>
                   /\ entry.outcome = "partial"
                        => /\ ret'.mastery_delta = 0
                           /\ After(sid).xp = StateOf(sid).xp + 2
                           /\ ret'.review_card = <<>> /\ ret'.activity # <<>>
                   /\ entry.outcome = "pass"
                        => /\ ret'.mastery_delta = 2
                           /\ After(sid).xp = StateOf(sid).xp + 5
                           /\ ret'.review_card = <<>> /\ ret'.activity # <<>>]_vars

\* C18 witness: a submission logged with total 2, the highest that fails
TotalDecidesOutcomeSeen ==
    /\ ret.op = "submit_utterance" /\ ret.err = "" /\ ret.review_card # <<>>
    /\ LET log == StateOf(ret.session_id).attempts
       IN  log[Len(log)].score = 2 /\ log[Len(log)].outcome = "fail"

\* C19 as stated: an utterance and a target phrase with the same lowercase
\* token sequence score form = 2.
SameTokensFormTwo ==
    [][(IsCall("evaluate_utterance") /\ tokenize(ret'.args[1]) = tokenize(ret'.args[2]))
       => ret'.summary[1].form = 2]_vars

\* C19 amended: an utterance and a target phrase with the same lowercase
\* token sequence, of at least one token, score form = 2.
SameWordsFormTwo ==
    [][( /\ IsCall("evaluate_utterance")
         /\ tokenize(ret'.args[1]) = tokenize(ret'.args[2])
         /\ tokenize(ret'.args[1]) # <<>> )
       => ret'.summary[1].form = 2]_vars

\* C19 witness: a phrase in other case, spacing and punctuation than the
\* target scored form 2
SameWordsFormTwoSeen ==
    /\ ret.op = "evaluate_utterance"
    /\ ret.args[1] # ret.args[2]
    /\ Len(tokenize(ret.args[2])) = 2
    /\ tokenize(ret.args[1]) = tokenize(ret.args[2])
    /\ ret.summary[1].form = 2

\* C20: for every target phrase the empty utterance scores 0 on meaning,
\* form, pronunciation and fluency, total 0; its outcome is fail, the mastery
\* delta is -1 and XP does not change.
EmptyUtteranceFails ==
    [][/\ (IsCall("evaluate_utterance") /\ ret'.args[1] = <<>>)
          => /\ ret'.summary[1].meaning = 0
             /\ ret'.summary[1].form = 0
             /\ ret'.summary[1].pronunciation = 0
             /\ ret'.summary[1].fluency = 0
             /\ ret'.summary[1].total = 0
             /\ ret'.summary[1].outcome = "fail"
       /\ \A sid \in DOMAIN sessions :
            ( /\ IsCall("submit_utterance") /\ ret'.session_id = sid
              /\ ret'.err = "" /\ ret'.args[1] = <<>> )
            => LET log == After(sid).attempts
               IN  /\ log[Len(log)].score = 0
                   /\ log[Len(log)].outcome = "fail"
                   /\ ret'.mastery_delta = -1
                   /\ ret'.award = <<>>
                   /\ After(sid).xp = StateOf(sid).xp
                   /\ After(sid).stickers = StateOf(sid).stickers]_vars

\* C20 witness: silence after a pass: the XP earned stays, nothing is added
EmptyUtteranceFailsSeen ==
    /\ ret.op = "submit_utterance" /\ ret.err = "" /\ ret.args[1] = <<>>
    /\ ret.mastery_delta = -1
    /\ StateOf(ret.session_id).xp = 5
    /\ LET log == StateOf(ret.session_id).attempts
       IN  Len(log) = 2 /\ log[2].score = 0

\* C21: no partial state of an operation is observable.  A call changes what
\* is stored (the session row and the learner's scheduling records) in at
\* most one of its store accesses, so that a read between any two of its
\* accesses finds either all of the state before the call or all of the
\* state after it.
NoPartialState == \A t \in Threads : threads[t].changes <= 1

\* C22: operations on different sessions share no mutable state.  While two
\* calls are in flight on two different sessions, no store access of the one
\* changes what the other works on: the other session's row and the
\* scheduling records of the other session's learner.
SessionsShareNoState ==
    [][\A t \in Threads : \A o \in Threads \ {t} :
          ( /\ threads'[t] # threads[t]
            /\ threads[t].session_id \in DOMAIN sessions
            /\ threads[o].pc # "done"
            /\ threads[o].session_id \in DOMAIN sessions
            /\ threads[o].session_id # threads[t].session_id )
          => /\ sessions'[threads[o].session_id] = sessions[threads[o].session_id]
             /\ \A k \in DOMAIN progress' :
                   k[1] = threads[o].user_id
                   => k \in DOMAIN progress /\ progress'[k] = progress[k]]_vars

\* Whether the step is a call in which the Scheduler runs for a track and age
\* band without curriculum items: a start that finds no pending activity, a
\* fetch, a submission to a session without pending activity, or the advance
\* after a submission that did not fail
PlansWithoutItems ==
    \/ /\ IsCall("start_session")
       /\ ItemsFor(ret'.args[2], ret'.args[1]) = {}
       /\ \A sid \in get_latest_session_for_user(sessions, ret'.user_id) :
             StateOf(sid).pending = <<>>
    \/ /\ IsCall("next_activity")
       /\ ret'.session_id \in DOMAIN sessions
       /\ ItemsFor(StateOf(ret'.session_id).goal, StateOf(ret'.session_id).age_band) = {}
    \/ /\ IsCall("submit_utterance")
       /\ ret'.session_id \in DOMAIN sessions
       /\ LET state == StateOf(ret'.session_id)
          IN  /\ ItemsFor(state.goal, state.age_band) = {}
              /\ \/ state.pending = <<>>
                 \/ OutcomeOf(ret'.args[1], state.pending[1].target) # "fail"

\* C23: whenever the Scheduler is run for a track and age band with zero
\* matching curriculum items, in start_session, next_activity or
\* submit_utterance, the call fails with the no-items ValueError, returns no
\* activity and no review card, and stores no activity as pending: a new
\* session is stored without pending activity and an existing session keeps
\* the pending field it had.
NoItemsFails ==
    [][PlansWithoutItems
       => /\ ret'.err = "no_items"
          /\ ret'.activity = <<>> /\ ret'.review_card = <<>>
          /\ \A sid \in DOMAIN sessions' :
                After(sid).pending = IF sid \in DOMAIN sessions
                                     THEN StateOf(sid).pending ELSE <<>>]_vars

\* C23 witness: a submission that did not fail was scored against a pending
\* activity and the plan for the next one found no items
NoItemsFailsSeen ==
    /\ ret.op = "submit_utterance" /\ ret.err = "no_items"
    /\ ret.session_id \in DOMAIN sessions
    /\ StateOf(ret.session_id).pending # <<>>
    /\ ItemsFor(StateOf(ret.session_id).goal, StateOf(ret.session_id).age_band) = {}

Posted ==
    {r \in {threads[c].request : c \in Connections}
            \cup {wire[i].request : i \in DOMAIN wire} : r.verb = "POST"}

\* C25: a tool call POSTed (to the invoke endpoint) with a stream id is
\* acknowledged with status 202, and the data event that delivers its result
\* on the stream carries the id of the request: every event written to a
\* stream has the id and tool of a request POSTed with that stream id; a
\* tool-discovery request is answered in the response, with status 200 and a
\* non-empty tool list.
InvokeAnswersOnStream ==
    \A i \in DOMAIN wire :
        LET request == wire[i].request
        IN  /\ wire[i].kind = "event"
               => \E r \in Posted : /\ r.stream_id = request.stream_id
                                    /\ r.tool = wire[i].data.tool
                                    /\ r.id = wire[i].data.id
            /\ ( /\ wire[i].kind = "response" /\ request.verb = "POST"
                 /\ request.path = "/invoke" /\ request.tool = "start_session"
                 /\ request.stream_id # ""
                 /\ ItemsFor(request.arguments[3], request.arguments[2]) # {} )
               => wire[i].status = 202
            /\ ( /\ wire[i].kind = "response" /\ request.verb = "POST"
                 /\ request.path = "/invoke" /\ request.tool = "list_tools" )
               => /\ wire[i].status = 200
                  /\ wire[i].data[1].result.tools # <<>>

\* The member of a set of catalog positions at place n, counted from 0 in
\* catalog order
Nth(positions, n) ==
    CHOOSE j \in positions : Cardinality({k \in positions : k < j}) = n

\* What the four rules, first match first, say a Scheduler run on state and
\* tbl at time t selects and leaves in the counters
FirstMatch(state, tbl, t) ==
    LET due    == DueIdx(state, tbl, t)
        unseen == UnseenIdx(state, tbl)
        all    == CandidateIdx(state)
        cursor == state.new_cursor
        since  == state.new_since_review
        Item(j) == CurriculumItems[j].item_id
    IN  IF due # {} /\ since >= 2
        THEN [rule |-> 1, item_id |-> Item(EarliestDue(state, tbl, t)),
              new_cursor |-> cursor, new_since_review |-> 0]
        ELSE IF unseen # {}
        THEN [rule |-> 2, item_id |-> Item(Nth(unseen, cursor % Cardinality(unseen))),
              new_cursor |-> cursor + 1, new_since_review |-> since + 1]
        ELSE IF due # {}
        THEN [rule |-> 3, item_id |-> Item(EarliestDue(state, tbl, t)),
              new_cursor |-> cursor, new_since_review |-> 0]
        ELSE [rule |-> 4, item_id |-> Item(Nth(all, cursor % Cardinality(all))),
              new_cursor |-> cursor + 1, new_since_review |-> since]

\* The state a run of the Scheduler starts from, with the counters a run
\* left
Counters(state, run) ==
    [state EXCEPT !.new_cursor = run.new_cursor,
                  !.new_since_review = run.new_since_review]

\* The stored state after the step carries the counters and the selection of
\* a run
LeftBy(run, after) ==
    /\ after.new_cursor = run.new_cursor
    /\ after.new_since_review = run.new_since_review
    /\ after.pending # <<>> /\ after.pending[1].item_id = run.item_id

\* C26: with a non-empty candidate list every run of the Scheduler selects
\* exactly one item, and the item and the counters are those of the first
\* matching rule: (1) a candidate due and new-since-review >= 2: the
\* earliest-due candidate, counter 0, cursor kept; (2) unseen candidates:
\* unseen[cursor mod count], cursor + 1, counter + 1; (3) a candidate due:
\* the earliest-due one, counter 0, cursor kept; (4) otherwise
\* candidates[cursor mod count], cursor + 1, counter kept.  Read on every
\* call that runs the Scheduler: fetchNext, a start that finds no pending
\* activity, a submission to a session without pending activity (the run
\* before scoring) and the advance after a submission that did not fail.
FirstMatchingRuleWins ==
    [][/\ \A sid \in DOMAIN sessions :
            LET state == StateOf(sid) IN
            /\ ( /\ IsCall("next_activity") /\ ret'.session_id = sid
                 /\ CandidateIdx(state) # {} )
               => LET run == FirstMatch(state, progress, now)
                  IN  /\ ret'.err = "" /\ Len(ret'.activity) = 1
                      /\ ret'.activity[1].item_id = run.item_id
                      /\ LeftBy(run, After(sid))
            /\ ( /\ IsCall("start_session") /\ ret'.user_id = state.user_id
                 /\ get_latest_session_for_user(sessions, state.user_id) = {sid}
                 /\ state.pending = <<>>
                 /\ ItemsFor(ret'.args[2], ret'.args[1]) # {} )
               => LET from == [state EXCEPT !.age_band = ret'.args[1],
                                            !.goal = ret'.args[2]]
                      run  == FirstMatch(from, progress, now)
                  IN  /\ ret'.err = "" /\ ret'.session_id = sid
                      /\ Len(ret'.activity) = 1
                      /\ ret'.activity[1].item_id = run.item_id
                      /\ LeftBy(run, After(sid))
            /\ ( /\ IsCall("submit_utterance") /\ ret'.session_id = sid
                 /\ CandidateIdx(state) # {} )
               => LET first  == FirstMatch(state, progress, now)
                      scored == IF state.pending # <<>> THEN state
                                ELSE Counters(state, first)
                      item   == IF state.pending # <<>> THEN state.pending[1].item_id
                                ELSE first.item_id
                      last   == FirstMatch(scored, progress', now)
                  IN  /\ ret'.err = ""
                      /\ After(sid).attempts[Len(After(sid).attempts)].item_id = item
                      /\ IF ret'.review_card # <<>>
                         THEN /\ ret'.activity = <<>>
                              /\ ret'.review_card[1].item_id = item
                              /\ LeftBy([item_id |-> item,
                                         new_cursor |-> scored.new_cursor,
                                         new_since_review |-> scored.new_since_review],
                                        After(sid))
                         ELSE /\ Len(ret'.activity) = 1
                              /\ ret'.activity[1].item_id = last.item_id
                              /\ LeftBy(last, After(sid))
       /\ ( /\ IsCall("start_session")
            /\ get_latest_session_for_user(sessions, ret'.user_id) = {}
            /\ ItemsFor(ret'.args[2], ret'.args[1]) # {} )
          => LET run == FirstMatch([user_id |-> ret'.user_id, age_band |-> ret'.args[1],
                                    goal |-> ret'.args[2], new_cursor |-> 0,
                                    new_since_review |-> 0], progress, now)
             IN  /\ ret'.err = "" /\ Len(ret'.activity) = 1
                 /\ ret'.activity[1].item_id = run.item_id
                 /\ LeftBy(run, After(ret'.session_id))]_vars

\* C26 witness: every candidate of a track with several has a record, none is
\* due, and fetchNext went round the candidates by the cursor
FirstMatchingRuleWinsSeen ==
    /\ ret.op = "next_activity" /\ ret.err = ""
    /\ LET state == StateOf(ret.session_id)
       IN  /\ Cardinality(CandidateIdx(state)) > 1
           /\ UnseenIdx(state, progress) = {}
           /\ DueIdx(state, progress, now) = {}
           /\ state.new_cursor > 0
           /\ ret.activity[1].item_id =
                 CurriculumItems[Nth(CandidateIdx(state),
                     (state.new_cursor - 1) % Cardinality(CandidateIdx(state)))].item_id

\* The logged Scheduler runs of a session, in order; and its log with the
\* goal changes between them
RunsOf(session_id) ==
    SelectSeq(picks, LAMBDA e : e.session_id = session_id /\ e.kind = "run")
LogOf(session_id) ==
    SelectSeq(picks, LAMBDA e : e.session_id = session_id)

\* No three entries in a row are new-item selections made while a candidate
\* was due
NoThreeNew(seq) ==
    \A i \in 1..(Len(seq) - 2) :
        ~(\A k \in i..(i + 2) : seq[k].kind = "run" /\ seq[k].due /\ seq[k].new)

\* C27 as stated: in any sequence of operations on one session, during
\* which a candidate is due at every Scheduler run, the Scheduler makes no
\* more than 2 new-item selections in a row before it selects a due item.
ThrottleBoundsNewItems == \A sid \in DOMAIN sessions : NoThreeNew(RunsOf(sid))

\* C27 amended: the same for any sequence of operations without a set_goal
\* among them: a change of goal between two runs ends the row.
ThrottleBoundsNewItemsSameGoal == \A sid \in DOMAIN sessions : NoThreeNew(LogOf(sid))

\* C27 witness: after a change of goal two new-item selections were made in a
\* row with a candidate due, and the run after them selected a due item
ThrottleBoundsNewItemsSameGoalSeen ==
    \E sid \in DOMAIN sessions :
        LET seq == LogOf(sid)
        IN  \E i \in 1..(Len(seq) - 2) :
              /\ \A k \in i..(i + 2) : seq[k].kind = "run" /\ seq[k].due
              /\ seq[i].new /\ seq[i + 1].new /\ ~seq[i + 2].new

\* An interval in millionths of a day, for intervals of less than 200 days
Micros(interval) == interval.days * IntervalUnit + interval.micro

\* C28: schedule with outcome partial sets the interval to
\* max(1, max(old interval, 1) * 0.8) days and due to now + interval days, and
\* leaves ease and streak as they were.
PartialShrinksInterval ==
    [][(IsCall("schedule") /\ ret'.args[2] = "partial")
       => LET old   == progress[RecordKey]
              new   == progress'[RecordKey]
              given == IntervalMax(old.interval_days, OneDay)
          IN  /\ IF given.days < 200
                 THEN Micros(new.interval_days)
                         = Max(IntervalUnit, (Micros(given) * 8) \div 10)
                 ELSE new.interval_days = Scaled(given, 8, 10)
              /\ new.due_at = Later(Timestamp(now), new.interval_days)
              /\ new.ease = old.ease
              /\ new.streak = old.streak]_vars

\* C28 witness: on the second day a partial took the 1.89 days that two
\* passes had left to 1.512 days, due 1.512 days later
PartialShrinksIntervalSeen ==
    /\ ret.op = "schedule" /\ ret.args[2] = "partial" /\ ret.err = ""
    /\ now = DaySeconds
    /\ ret.args[1].ease = 140 /\ ret.args[1].streak = 2
    /\ ret.args[1].interval_days = Days(1, 890000)
    /\ progress[RecordKey].interval_days = Days(1, 512000)
    /\ progress[RecordKey].due_at = [days |-> 2, secs |-> 44236]
    /\ progress[RecordKey].ease = 140 /\ progress[RecordKey].streak = 2

\* C29 as stated: schedule with outcome pass sets the interval to
\* max(1, old interval) * new ease, with new ease = min(old ease + 0.05, 2.5),
\* sets due to now + interval days and adds exactly 1 to the streak; every
\* pass makes the interval strictly larger and puts the due time strictly
\* after now.
PassLengthensInterval ==
    [][(IsCall("schedule") /\ ret'.args[2] = "pass")
       => LET old  == progress[RecordKey]
              new  == progress'[RecordKey]
              ease == Min(old.ease + EaseStep, EaseCap)
          IN  /\ new.interval_days = Scaled(IntervalMax(OneDay, old.interval_days), ease, 100)
              /\ new.due_at = Later(Timestamp(now), new.interval_days)
              /\ new.streak = old.streak + 1
              /\ ~IntervalLeq(new.interval_days, old.interval_days)
              /\ ~DateLeq(new.due_at, Timestamp(now))]_vars

\* The number of entries of an attempt log with the outcome
LoggedWith(attempts, outcome) ==
    Cardinality({i \in DOMAIN attempts : attempts[i].outcome = outcome})

\* The XP an attempt log accounts for
LogXp(attempts) == 5 * LoggedWith(attempts, "pass") + 2 * LoggedWith(attempts, "partial")

\* The XP of every stored session is what its attempt log accounts for
XpMatchesLog ==
    \A sid \in DOMAIN sessions : StateOf(sid).xp = LogXp(StateOf(sid).attempts)

\* A submission that returns adds 5, 2 or 0 XP by its outcome; no other call
\* changes the XP of a session there was
XpStep ==
    \A sid \in DOMAIN sessions :
        /\ sid \in DOMAIN sessions'
        /\ IF IsCall("submit_utterance") /\ ret'.err = "" /\ ret'.session_id = sid
           THEN LET outcome == OutcomeOf(ret'.args[1], Scored(sid).pending[1].target)
                IN  After(sid).xp - StateOf(sid).xp
                       = CASE outcome = "pass" -> 5
                           [] outcome = "partial" -> 2
                           [] outcome = "fail" -> 0
           ELSE After(sid).xp = StateOf(sid).xp

\* C30: in every reachable state the XP of a session is 5 * (pass entries of
\* its attempt log) + 2 * (partial entries); a submission adds exactly 5, 2 or
\* 0 for pass, partial or fail, and start (resume), fetchNext, setGoal and
\* getProgress leave XP as it was.
XpCountsTheLog == []XpMatchesLog /\ [][XpStep]_vars

\* C30 witness: a session with a pass, a partial and a fail in its log holds
\* 7 XP after a call that was not a submission
XpCountsTheLogSeen ==
    /\ ret.op \in {"start_session", "next_activity", "set_goal", "get_progress"}
    /\ ret.err = ""
    /\ \E sid \in DOMAIN sessions :
          LET state == StateOf(sid)
          IN  /\ LoggedWith(state.attempts, "pass") = 1
              /\ LoggedWith(state.attempts, "partial") = 1
              /\ LoggedWith(state.attempts, "fail") = 1
              /\ state.xp = 7

\* C31: the attempt log is append-only.  A submission that returns appends
\* exactly one entry (the pending item's id, the outcome, the total, the
\* time) at the end; no other call, and no submission that fails, removes,
\* reorders or rewrites an entry of any session.
LogAppendOnly ==
    [][\A sid \in DOMAIN sessions :
          /\ sid \in DOMAIN sessions'
          /\ IF IsCall("submit_utterance") /\ ret'.err = "" /\ ret'.session_id = sid
             THEN LET pending == Scored(sid).pending[1]
                      score   == total(evaluate_utterance(ret'.args[1], pending.target))
                  IN  After(sid).attempts
                         = Append(StateOf(sid).attempts,
                                  [item_id |-> pending.item_id,
                                   outcome |-> OutcomeFor(score),
                                   score |-> score,
                                   timestamp |-> now])
             ELSE After(sid).attempts = StateOf(sid).attempts]_vars

\* C31 witness: a log of a fail followed by a pass, written on different
\* days, is in place after a change of goal
LogAppendOnlySeen ==
    /\ ret.op = "set_goal" /\ ret.err = ""
    /\ LET log == StateOf(ret.session_id).attempts
       IN  /\ Len(log) = 2
           /\ log[1].outcome = "fail" /\ log[2].outcome = "pass"
           /\ log[1].timestamp < log[2].timestamp

\* The catalog's target phrase of an item
TargetOf(item_id) ==
    (CHOOSE item \in Range(CurriculumItems) : item.item_id = item_id).target

\* C32: a submission on a session with nothing pending first runs the
\* Scheduler and scores the utterance against the activity it planned.  With
\* candidates for the session's track and age band the submission does not
\* fail for lack of a pending activity; "Pending activity missing" is never
\* raised; and the utterance is scored against the target phrase of the
\* pending item, which is the item logged.
SubmitHealsPending ==
    [][\A sid \in DOMAIN sessions :
          (IsCall("submit_utterance") /\ ret'.session_id = sid)
          => LET state == StateOf(sid)
                 healed == plan_next_activity(state, progress, now)
             IN  /\ ret'.err # "pending_missing"
                 /\ ItemsFor(state.goal, state.age_band) # {}
                      => ret'.err \notin {"no_items", "pending_missing"}
                 /\ ret'.err = ""
                      => LET entry == After(sid).attempts[Len(After(sid).attempts)]
                         IN  /\ entry.item_id
                                  = IF state.pending # <<>>
                                    THEN state.pending[1].item_id
                                    ELSE healed.activity[1].item_id
                             /\ state.pending # <<>>
                                  => state.pending[1].target = TargetOf(entry.item_id)
                             /\ entry.score
                                  = total(evaluate_utterance(ret'.args[1],
                                                             TargetOf(entry.item_id)))]_vars

\* C32 witness: the third call was a submission straight after a change of
\* goal, and it was scored and logged against an item of the new track
SubmitHealsPendingSeen ==
    /\ calls = 3 /\ now = 0
    /\ ret.op = "submit_utterance" /\ ret.err = ""
    /\ LET state == StateOf(ret.session_id)
       IN  /\ state.age_band = "5-6" /\ state.goal = "colors-numbers"
           /\ Len(state.attempts) = 1
           /\ state.attempts[1].item_id \in ItemsFor("colors-numbers", "5-6")

\* The history entries of the calls on a session: the calls with its id and
\* the start_session calls of its learner
CallsOn(sid) ==
    SelectSeq(picks, LAMBDA e : \/ e.session_id = sid
                                \/ /\ e.op = "start_session"
                                   /\ e.user_id = sessions[sid].user_id)

\* At most one call on the session was in flight at any time: every call on
\* it returned before the next one arrived
Serialized(sid) ==
    LET seq == CallsOn(sid)
    IN  \A i \in 1..(Len(seq) - 1) :
            seq[i].kind = "request"
            => seq[i + 1].kind = "return" /\ seq[i + 1].thread = seq[i].thread

\* The submissions on the session that returned a result with the XP award
Returned(sid, xp) ==
    {i \in DOMAIN picks :
        /\ picks[i].kind = "return" /\ picks[i].op = "submit_utterance"
        /\ picks[i].session_id = sid /\ picks[i].err = "" /\ picks[i].xp = xp}

\* The stored session reflects every submission that returned
Reflected(sid) ==
    /\ Len(StateOf(sid).attempts)
          = Cardinality(Returned(sid, 0) \cup Returned(sid, 2) \cup Returned(sid, 5))
    /\ StateOf(sid).xp
          = 2 * Cardinality(Returned(sid, 2)) + 5 * Cardinality(Returned(sid, 5))

\* C33: calls on one session that overlap race, and an update of one of two
\* overlapping submissions can be lost; with at most one call on a session
\* in flight no update is lost: an update is lost only where calls overlapped.
UpdateLostOnlyInRace ==
    \A sid \in DOMAIN sessions : ~Reflected(sid) => ~Serialized(sid)

\* C33 witness: two submissions on the session overlapped, both returned a
\* pass with 5 XP, and the stored session holds one log entry and 5 XP
UpdateLostOnlyInRaceSeen ==
    \E sid \in DOMAIN sessions :
        /\ Cardinality(Returned(sid, 5)) = 2
        /\ Len(StateOf(sid).attempts) = 1
        /\ StateOf(sid).xp = 5
        /\ \E i \in 1..(Len(picks) - 1) :
              /\ picks[i].kind = "request" /\ picks[i + 1].kind = "request"
              /\ picks[i].op = "submit_utterance" /\ picks[i + 1].op = "submit_utterance"
              /\ picks[i].session_id = sid /\ picks[i + 1].session_id = sid

\* C34: with calls made one at a time, in every reachable state the badge
\* count of a session is its XP divided by 20, rounded down.
BadgesAreXpDiv20 ==
    \A sid \in DOMAIN sessions : StateOf(sid).stickers = StateOf(sid).xp \div BadgeStep

\* C34 witness: a session past the first badge, with 25 XP from five passes
BadgesAreXpDiv20Seen ==
    \E sid \in DOMAIN sessions :
        /\ StateOf(sid).xp = 25 /\ StateOf(sid).stickers = 1
        /\ Len(StateOf(sid).attempts) = 5

\* C35 as stated: in every reachable state the pending item of a session is
\* a candidate for the session's current track and age band, after any
\* sequence of start, fetchNext, submitResponse and setGoal calls, start
\* calls that resume with another track or age band included.
PendingIsCandidate ==
    \A sid \in DOMAIN sessions :
        StateOf(sid).pending # <<>>
        => StateOf(sid).pending[1].item_id
              \in ItemsFor(StateOf(sid).goal, StateOf(sid).age_band)

\* The items the attempt logs of a learner's sessions have an entry for
LoggedItems(user_id) ==
    UNION {{StateOf(sid).attempts[i].item_id : i \in DOMAIN StateOf(sid).attempts} :
              sid \in {s \in DOMAIN sessions : sessions[s].user_id = user_id}}

\* C36 as stated: after any sequence of completed calls made one at a time,
\* successful or failed, there is a scheduling record for a learner and an
\* item if and only if the attempt log of the learner's session has an entry
\* for the item; an item only presented has no record.
RecordIffLogged ==
    \A user_id \in Users, i \in DOMAIN CurriculumItems :
        <<user_id, CurriculumItems[i].item_id>> \in DOMAIN progress
        <=> CurriculumItems[i].item_id \in LoggedItems(user_id)

\* The sessions of a learner
SessionsOf(user_id) == {sid \in DOMAIN sessions : sessions[sid].user_id = user_id}

\* C37: with the calls made one at a time each learner has at most one
\* session, which is the one the lookup of the learner's most recent session
\* finds; a start for a learner who has a session creates no session id and,
\* when it returns, returns that session.
OneSessionPerLearner ==
    /\ [](\A user_id \in Users :
             /\ Cardinality(SessionsOf(user_id)) <= 1
             /\ get_latest_session_for_user(sessions, user_id) = SessionsOf(user_id))
    /\ [][\A user_id \in Users :
             (IsCall("start_session") /\ ret'.user_id = user_id
                 /\ SessionsOf(user_id) # {})
             => /\ DOMAIN sessions' = DOMAIN sessions
                /\ ret'.err = "" => ret'.session_id \in SessionsOf(user_id)]_vars

\* C37 witness: a third start, days after the first and with another track,
\* returns the learner's only session
OneSessionPerLearnerSeen ==
    /\ ret.op = "start_session" /\ ret.err = "" /\ calls = 5
    /\ SessionsOf(ret.user_id) = {ret.session_id}
    /\ sessions[ret.session_id].created_at = 0
    /\ sessions[ret.session_id].updated_at = 2 * 86400
    /\ sessions[ret.session_id].goal = "colors-numbers"
    /\ StateOf(ret.session_id).pending # <<>>

\* C38 as stated: a start that fails for lack of curriculum items creates no
\* session row, and the track, age band and locale stored for the sessions
\* there are (in the row and in the state) keep their values.
FailedStartStoresNothing ==
    [][(IsCall("start_session") /\ ret'.err = "no_items")
       => /\ DOMAIN sessions' = DOMAIN sessions
          /\ \A sid \in DOMAIN sessions :
                /\ sessions'[sid].goal = sessions[sid].goal
                /\ sessions'[sid].age_band = sessions[sid].age_band
                /\ sessions'[sid].locale = sessions[sid].locale
                /\ After(sid).goal = StateOf(sid).goal
                /\ After(sid).age_band = StateOf(sid).age_band
                /\ After(sid).locale = StateOf(sid).locale]_vars

\* The calls acknowledged as queued for a stream, and the results written
\* as events to the clients of the stream
Acknowledged(stream_id) ==
    Cardinality({i \in DOMAIN wire :
        /\ wire[i].kind = "response" /\ wire[i].status = 202
        /\ wire[i].request.stream_id = stream_id})
Delivered(stream_id) ==
    Cardinality({i \in DOMAIN wire :
        /\ wire[i].kind = "event"
        /\ wire[i].request.stream_id = stream_id})

\* A client is connected under the stream id and has not closed
Listening(stream_id) ==
    \E c \in Connections :
        /\ threads[c].pc = "get" /\ ~threads[c].hung_up
        /\ threads[c].request.stream_id = stream_id

\* C39 as stated, read in the claim's favour: whenever clients keep listening
\* under a stream id, every result acknowledged as queued for the stream is
\* eventually written to a client of the stream, whatever the order of
\* connects, publishes and closes (the n-th acknowledgement is followed by
\* the n-th event).
QueuedIsDelivered ==
    \A stream_id \in StreamIds, n \in 1..MaxStreamCalls :
        []<>Listening(stream_id)
        => [](Acknowledged(stream_id) >= n => <>(Delivered(stream_id) >= n))

====
